---- MODULE Spec2Model ----
(***************************************************************************)
(* A model of the wgpu-native core: the device lifecycle / submission      *)
(* engine (device.rs) and the bind group state machine of the passes       *)
(* (command/bind.rs, command/render.rs, command/compute.rs).               *)
(*                                                                         *)
(* SpecLife runs the public lifecycle operations on several threads; an    *)
(* action is the code executed between two points at which the thread      *)
(* holds no lock that another modelled step needs.  SpecBind runs the      *)
(* recording operations of one pass.                                       *)
(***************************************************************************)
EXTENDS Integers, Sequences, FiniteSets, TLC

\* ------------------------------------------------------------------ bounds

\* queue_submit and buffer_map_async calls made in one behaviour
MaxCalls == 2
\* operations called on one pass
MaxPassOps == 4
\* operations called on the encoder, the views and the device of the
\* framebuffer cache
MaxFrameOps == 5
\* operations called on the vertex state of one render pass
MaxVertexOps == 3
\* the greatest value of a u32 (!0), scaled down; BufferAddress is twice as wide
MaxU32 == 7
\* vertex buffer slots of a pass, MAX_VERTEX_BUFFERS scaled down
MaxVertexBuffers == 2
\* operations called on one command encoder and its passes
MaxEncoderOps == 5

\* ------------------------------------------------------- lifecycle: domains

Threads == {"t1", "t2"}
Buffers == {"b1"}
\* textures, views and bind groups that exist
Others == {}
Res == Buffers \cup Others
\* command buffers that exist (each can be submitted once)
Cmbs == {"c1"}
\* the indices queue_submit can hand out: the first one is 2
SubIndices == 2 .. (MaxCalls + 1)

\* ResourceId variant of each id
kind == [r \in Res |-> IF r \in Buffers THEN "Buffer" ELSE "Texture"]

\* BufferMapOperation: Read(..) | Write(..); `id` tells two operations apart
NoOp == [id |-> 0, kind |-> "None"]
MapOp(n, k) == [id |-> n, kind |-> k]

\* the usage buffer_map_async asks the device tracker for
MapUsage(k) == IF k = "Read" THEN "MAP_READ" ELSE "MAP_WRITE"

VARIABLES
    \* --- hub stores and per-resource state
    registered,             \* ids present in their hub store
    trackers,               \* device.trackers: usage of each id, or "absent"
    submission_index,       \* life_guard.submission_index of each resource
    pending_map_operation,  \* Buffer::pending_map_operation
    device_index,           \* device.life_guard.submission_index
    cmb,                    \* command buffers: [state, used (trackers)]
    \* --- PendingResources
    mapped, referenced, active, free, ready_to_map,
    \* --- threads
    pc, targ, callbacks,
    \* --- environment and observation
    gpuDone,                \* the queue has finished every submission <= gpuDone
    nativeDestroyed,        \* resources handed to a backend destructor
    retired,                \* submission indices drained from `active`
    subUsed,                \* resources used by each submission index
    cbLog,                  \* user callbacks invoked so far
    nextOp,                 \* id of the next BufferMapOperation
    panic,                  \* the assertion that failed, or "none"
    \* --- the pass being recorded
    passKind,               \* "render", "compute", or "none" when no pass is open
    debug_assertions,       \* cfg!(debug_assertions) of the build
    binder,                 \* pass.binder
    blend_color_status,     \* RenderPass::blend_color_status
    stencil_reference_status,
    vertex_state,           \* RenderPass::vertex_state limits
    pass_trackers,          \* pass.trackers.bind_groups
    recorded,               \* commands the last operation put into pass.raw
    last,                   \* the last operation called on the pass
    passError,              \* the panic that ended the recording, if any
    nops,                   \* operations called on the pass so far
    descriptor_sets,        \* the group the backend holds at each set index
    \* --- render pass begin and the framebuffer cache
    view_guard,             \* texture views present in hub.texture_views
    view_index,             \* life_guard.submission_index of each view
    encoder,                \* the command encoder: [state, raw, barriers, views]
    framebuffers,           \* device.framebuffers: the cached keys
    fr_referenced,          \* views in pending.referenced
    fr_active,              \* pending.active: [index, resources, framebuffers]
    fr_free,                \* pending.free
    fr_index,               \* device.life_guard.submission_index
    fr_last,                \* the last operation called and what it was given
    fr_panic,               \* the assertion that failed, or "none"
    fr_nops,                \* operations called so far
    cmb_raw,                \* raw of each command buffer: its command lists
    pass_raw,               \* raw of the open render pass: its command list
    backend,                \* the lists the queue was given by the last submit
    fr_submitted,           \* command buffers handed back to the allocator
    \* --- locking
    lk_pc,                  \* the operation each thread runs and its next step
    lk_held,                \* the guards each thread holds: << lock, mode >>
    lk_flags,               \* what the device's PendingResources holds
    \* --- a tracker scope and the sampler store
    tk_usage,               \* usage the scope's buffer tracker holds for the buffer
    tk_last,                \* the last use_extend: [old, required, result]
    sampler_guard,          \* hub.samplers: the SamplerInfo of each sampler made
    \* --- the vertex state of a render pass
    overflow_checks,        \* the build panics on integer overflow
    vb_inputs,              \* VertexState::inputs: [total_size, stride, rate]
    vb_limits,              \* [vertex_limit, instance_limit]
    vb_last,                \* the last operation called, its arguments and result
    vb_nops,                \* operations called so far
    \* --- one command encoder with a compute pass and a render pass
    enc_trackers,           \* cmb.trackers: the ids the tracker set holds
    enc_raw,                \* cmb.raw: the command lists, by number
    compute_pass,           \* the open ComputePass: [raw, trackers]
    render_pass,            \* the open RenderPass: [raw, trackers]
    enc_since,              \* what cmb.trackers held at begin_compute_pass and
                            \* what has been merged into it since
    enc_last,               \* the last operation called
    enc_nops,               \* operations called so far
    enc_panic               \* "none", or the panic that stopped the encoder

lifeVars == << registered, trackers, submission_index, pending_map_operation,
               device_index, cmb, mapped, referenced, active, free, ready_to_map,
               pc, targ, callbacks, gpuDone, nativeDestroyed, retired, subUsed,
               cbLog, nextOp, panic >>

passVars == << passKind, debug_assertions, binder, blend_color_status,
               stencil_reference_status, vertex_state, pass_trackers, recorded,
               last, passError, nops, descriptor_sets >>

frameVars == << view_guard, view_index, encoder, framebuffers, fr_referenced,
                fr_active, fr_free, fr_index, fr_last, fr_panic, fr_nops,
                cmb_raw, pass_raw, backend, fr_submitted >>

lockVars == << lk_pc, lk_held, lk_flags >>

unitVars == << tk_usage, tk_last, sampler_guard >>

vertVars == << overflow_checks, vb_inputs, vb_limits, vb_last, vb_nops >>

compVars == << enc_trackers, enc_raw, compute_pass, render_pass, enc_since,
              enc_last, enc_nops, enc_panic >>

vars == << lifeVars, passVars, frameVars, lockVars, unitVars, vertVars,
           compVars >>

\* MIN_REFS of triage_referenced
MIN_REFS == 4

\* ----------------------------------------------------------------- helpers

Range(s) == { s[i] : i \in 1 .. Len(s) }

Count(s, x) == Cardinality({ i \in 1 .. Len(s) : s[i] = x })

\* Vec::swap_remove(i): the last element takes the place of element i
SwapRemove(s, i) ==
    IF i = Len(s) THEN SubSeq(s, 1, Len(s) - 1)
    ELSE [ j \in 1 .. Len(s) - 1 |-> IF j = i THEN s[Len(s)] ELSE s[j] ]

NoArg == [idx |-> 0, cmbs |-> {}, buf |-> "none", op |-> NoOp, ops |-> {}]

\* locks a thread holds between two of its steps
HeldLocks(t) ==
    IF pc[t] \in {"submit_push", "submit_after", "map_tracker"}
    THEN {"devices.read"}
    ELSE {}

\* locks buffer_map_async holds where it calls operation.call_error()
CallErrorLocks == {"devices.read", "buffers.write"}

DevReaders == { t \in Threads : "devices.read" \in HeldLocks(t) }

\* RefCount that misses the clones held by command buffers
RefCount_NoCmb(r) ==
      (IF r \in registered THEN 1 ELSE 0)
    + (IF trackers[r] # "absent" THEN 1 ELSE 0)
    + Count(referenced, r)
    + Count(mapped, r)
    + Cardinality({ t \in Threads :
                      pc[t] = "map_tracker" /\ targ[t].buf = r })

\* strong count of the resource's RefCount
RefCount(r) ==
      (IF r \in registered THEN 1 ELSE 0)
    + (IF trackers[r] # "absent" THEN 1 ELSE 0)
    + Count(referenced, r)
    + Count(mapped, r)
    + Cardinality({ c \in Cmbs : r \in cmb[c].used })
    + Cardinality({ t \in Threads :
                      pc[t] = "map_tracker" /\ targ[t].buf = r })

\* queue_submit and buffer_map_async calls made so far
CallsMade == (device_index - 1) + (nextOp - 1)

\* device.get_fence_status of the fence of submission idx
FenceSignaled(idx) == idx <= gpuDone

\* ------------------------------------------------------------------- Init

LifeStart ==
    /\ registered = Res
    /\ trackers = [r \in Res |-> IF r \in Buffers THEN "NONE" ELSE "UNINITIALIZED"]
    /\ submission_index = [r \in Res |-> 0]
    /\ pending_map_operation = [b \in Buffers |-> NoOp]
    /\ device_index = 1
    /\ cmb = [c \in Cmbs |-> [state |-> "recording", used |-> {}]]
    /\ mapped = << >>
    /\ referenced = << >>
    /\ active = << >>
    /\ free = << >>
    /\ ready_to_map = << >>
    /\ pc = [t \in Threads |-> "idle"]
    /\ targ = [t \in Threads |-> NoArg]
    /\ callbacks = [t \in Threads |-> << >>]
    /\ gpuDone = 1
    /\ nativeDestroyed = {}
    /\ retired = {}
    /\ subUsed = [i \in SubIndices |-> {}]
    /\ cbLog = {}
    /\ nextOp = 1
    /\ panic = "none"

\* ------------------------------------------------------- passes: domains

\* bind.rs: number of bind group slots of a pass
MAX_BIND_GROUPS == 4
\* device.rs: alignment required of dynamic offsets
BIND_BUFFER_ALIGNMENT == 256

Slots == 0 .. (MAX_BIND_GROUPS - 1)

\* hub.bind_groups: layout_id and dynamic_count of the bind groups that exist
bind_group_guard ==
    [g \in {"g1", "g2", "g3"} |->
        [layout_id |-> IF g = "g3" THEN "LB" ELSE "LA",
         dynamic_count |-> IF g = "g2" THEN 1 ELSE 0]]

BindGroups == DOMAIN bind_group_guard

\* hub.pipeline_layouts: bind_group_layout_ids of the pipeline layouts that exist
pipeline_layout_guard ==
    [l \in {"PL0", "PL1", "PL2", "PL3"} |->
        CASE l = "PL0" -> << >>
          [] l = "PL1" -> << "LA", "LA" >>
          [] l = "PL2" -> << "LB", "LA" >>
          [] l = "PL3" -> << "LA", "LB", "LA" >>]

\* hub.render_pipelines / hub.compute_pipelines: layout_id and flags of the
\* pipelines that exist (none of them has vertex buffers)
pipeline_guard ==
    [q \in {"p0", "p1", "p2", "p3"} |->
        CASE q = "p0" -> [layout_id |-> "PL0", flags |-> {}]
          [] q = "p1" -> [layout_id |-> "PL1", flags |-> {}]
          [] q = "p2" -> [layout_id |-> "PL2", flags |-> {"BLEND_COLOR"}]
          [] q = "p3" -> [layout_id |-> "PL3", flags |-> {"STENCIL_REFERENCE"}]]

Pipelines == DOMAIN pipeline_guard

\* the bind group indices a caller passes to set_bind_group: those that some
\* pipeline layout has an entry for
BindIndices == {0, 1, 2}

\* the offset lists a caller passes to set_bind_group
OffsetLists == { << >>, << 256 >>, << 128 >> }

\* Option<BindGroupPair>::None
NoPair == [layout_id |-> "none", group_id |-> "none"]

\* BindGroupEntry::default()
DefaultEntry ==
    [expected_layout_id |-> "none", provided |-> NoPair, dynamic_offsets |-> << >>]

\* Binder::default()
DefaultBinder ==
    [pipeline_layout_id |-> "none", entries |-> [i \in Slots |-> DefaultEntry]]

\* one command of pass.raw
Cmd(name) ==
    [cmd |-> name, layout |-> "none", first |-> 0, sets |-> << >>, offsets |-> << >>]

BindCmd(point, layout, first, sets, offsets) ==
    [cmd |-> point, layout |-> layout, first |-> first, sets |-> sets,
     offsets |-> offsets]

\* a call on the pass: its arguments, and the slot as the call found it
NoCall ==
    [op |-> "none", index |-> 0, group |-> "none", offsets |-> << >>,
     before |-> DefaultEntry]

NoError == [err |-> "none", index |-> 0]

\* a u32 limit of VertexState; NoLimit is !0 (u32::MAX), the value
\* update_limits starts from
Limit(n) == [max |-> FALSE, n |-> n]
NoLimit == [max |-> TRUE, n |-> 0]

\* ------------------------------------------------- Binder (command/bind.rs)

Min(a, b) == IF a < b THEN a ELSE b

\* BindGroupEntry::provide without the comparison with the group the slot holds
provide_AlwaysChanged(entry, bind_group_id, offsets) ==
    [entry |-> [entry EXCEPT
                  !.provided =
                      [layout_id |-> bind_group_guard[bind_group_id].layout_id,
                       group_id |-> bind_group_id],
                  !.dynamic_offsets = offsets],
     provision |-> "Changed",
     was_compatible |->
         IF entry.provided # NoPair
         THEN entry.expected_layout_id = entry.provided.layout_id
         ELSE TRUE]

\* BindGroupEntry::provide
provide(entry, bind_group_id, offsets) ==
    IF /\ entry.provided # NoPair
       /\ entry.provided.group_id = bind_group_id
       /\ offsets = entry.dynamic_offsets
    THEN [entry |-> entry, provision |-> "Unchanged", was_compatible |-> FALSE]
    ELSE [entry |-> [entry EXCEPT
                       !.provided =
                           [layout_id |-> bind_group_guard[bind_group_id].layout_id,
                            group_id |-> bind_group_id],
                       !.dynamic_offsets = offsets],
          provision |-> "Changed",
          was_compatible |->
              IF entry.provided # NoPair
              THEN entry.expected_layout_id = entry.provided.layout_id
              ELSE TRUE]

\* expect_layout that reports a group of another layout as Unchanged
expect_layout_NoMismatch(entry, bind_group_layout_id) ==
    IF entry.expected_layout_id # bind_group_layout_id
    THEN [entry |-> [entry EXCEPT !.expected_layout_id = bind_group_layout_id],
          change |-> IF /\ entry.provided # NoPair
                        /\ entry.provided.layout_id = bind_group_layout_id
                     THEN "Match" ELSE "Unchanged"]
    ELSE [entry |-> entry, change |-> "Unchanged"]

\* BindGroupEntry::expect_layout
expect_layout(entry, bind_group_layout_id) ==
    IF entry.expected_layout_id # bind_group_layout_id
    THEN [entry |-> [entry EXCEPT !.expected_layout_id = bind_group_layout_id],
          change |-> IF /\ entry.provided # NoPair
                        /\ entry.provided.layout_id = bind_group_layout_id
                     THEN "Match" ELSE "Mismatch"]
    ELSE [entry |-> entry, change |-> "Unchanged"]

\* is_valid that accepts a slot with nothing provided
is_valid_MissingOk(entry) ==
    IF entry.expected_layout_id = "none" THEN TRUE
    ELSE IF entry.provided = NoPair THEN TRUE
    ELSE entry.expected_layout_id = entry.provided.layout_id

\* BindGroupEntry::is_valid
is_valid(entry) ==
    IF entry.expected_layout_id = "none" THEN TRUE
    ELSE IF entry.provided = NoPair THEN FALSE
    ELSE entry.expected_layout_id = entry.provided.layout_id

\* BindGroupEntry::actual_value
actual_value(entry) ==
    IF /\ entry.expected_layout_id # "none"
       /\ entry.provided # NoPair
       /\ entry.provided.layout_id = entry.expected_layout_id
    THEN entry.provided.group_id
    ELSE "none"

\* Binder::reset_expectations
reset_expectations(b, length) ==
    [b EXCEPT !.entries =
        [i \in Slots |-> IF i >= length
                         THEN [b.entries[i] EXCEPT !.expected_layout_id = "none"]
                         ELSE b.entries[i]]]

\* compatible_count that takes every slot for valid
compatible_count_Whole(b) == MAX_BIND_GROUPS

\* Binder::compatible_count
compatible_count(b) ==
    IF \E i \in Slots : ~is_valid(b.entries[i])
    THEN CHOOSE i \in Slots :
            /\ ~is_valid(b.entries[i])
            /\ \A j \in 0 .. i - 1 : is_valid(b.entries[j])
    ELSE MAX_BIND_GROUPS

\* mask | 1u8 << i
BitOr(mask, i) ==
    IF (mask \div (2 ^ i)) % 2 = 1 THEN mask ELSE (mask + 2 ^ i) % 256

RECURSIVE MaskFold(_, _, _)
MaskFold(b, i, mask) ==
    IF i = MAX_BIND_GROUPS THEN mask
    ELSE MaskFold(b, i + 1, IF is_valid(b.entries[i]) THEN mask ELSE BitOr(mask, i))

\* Binder::invalid_mask
invalid_mask(b) == MaskFold(b, 0, 0)

\* u8::trailing_zeros
RECURSIVE trailing_zeros(_)
trailing_zeros(mask) ==
    IF mask = 0 THEN 8
    ELSE IF mask % 2 = 1 THEN 0
    ELSE 1 + trailing_zeros(mask \div 2)

\* TakeSome that does not stop at a None
TakeSome_PastNone(items) == items

\* TakeSome: the items up to the first None
RECURSIVE TakeSome(_)
TakeSome(items) ==
    IF items = << >> \/ Head(items) = "none" THEN << >>
    ELSE << Head(items) >> \o TakeSome(Tail(items))

\* the entries[from .. end] slice, mapped by actual_value
RECURSIVE ActualValues(_, _, _)
ActualValues(b, from, end) ==
    IF from >= end THEN << >>
    ELSE << actual_value(b.entries[from]) >> \o ActualValues(b, from + 1, end)

\* the entries[from .. end] slice, flat-mapped to the dynamic offsets
RECURSIVE FlatOffsets(_, _, _)
FlatOffsets(b, from, end) ==
    IF from >= end THEN << >>
    ELSE b.entries[from].dynamic_offsets \o FlatOffsets(b, from + 1, end)

\* the value provide_entry returns, next to the binder it leaves
ProvideNone(b) ==
    [binder |-> b, some |-> FALSE, pipeline_layout_id |-> "none",
     follow_up_sets |-> << >>, follow_up_offsets |-> << >>]

\* provide_entry whose follow-ups always run to the compatible prefix
provide_entry_FullPrefix(b, index, bind_group_id, offsets) ==
    LET p == provide(b.entries[index], bind_group_id, offsets)
        b1 == [b EXCEPT !.entries[index] = p.entry]
        cc == compatible_count(b1)
    IN  IF p.provision = "Unchanged" THEN ProvideNone(b)
        ELSE IF index < cc /\ b1.pipeline_layout_id # "none"
        THEN [binder |-> b1, some |-> TRUE,
              pipeline_layout_id |-> b1.pipeline_layout_id,
              follow_up_sets |-> TakeSome(ActualValues(b1, index + 1, cc)),
              follow_up_offsets |-> FlatOffsets(b1, index + 1, cc)]
        ELSE ProvideNone(b1)

\* Binder::provide_entry
provide_entry(b, index, bind_group_id, offsets) ==
    LET p == provide(b.entries[index], bind_group_id, offsets)
        b1 == [b EXCEPT !.entries[index] = p.entry]
        cc == compatible_count(b1)
        end == Min(cc, IF p.was_compatible THEN index + 1 ELSE MAX_BIND_GROUPS)
    IN  IF p.provision = "Unchanged" THEN ProvideNone(b)
        ELSE IF index < cc /\ b1.pipeline_layout_id # "none"
        THEN [binder |-> b1, some |-> TRUE,
              pipeline_layout_id |-> b1.pipeline_layout_id,
              follow_up_sets |-> TakeSome(ActualValues(b1, index + 1, end)),
              follow_up_offsets |-> FlatOffsets(b1, index + 1, end)]
        ELSE ProvideNone(b1)

\* the binder with no pass open
PassClosed ==
    /\ passKind = "none"
    /\ debug_assertions = FALSE
    /\ binder = DefaultBinder
    /\ blend_color_status = "Unused"
    /\ stencil_reference_status = "Unused"
    /\ vertex_state = [vertex_limit |-> Limit(0), instance_limit |-> Limit(0)]
    /\ pass_trackers = {}
    /\ recorded = << >>
    /\ last = NoCall
    /\ passError = NoError
    /\ nops = 0
    /\ descriptor_sets = [i \in Slots |-> "none"]

\* ------------------------------------------ render pass begin: domains

\* texture views that exist, and TextureView::samples of each
Views == {"v1", "w1", "v4"}
samples == [v \in Views |-> IF v = "v4" THEN 4 ELSE 1]

\* the color attachment lists a render pass is begun with: one or two
\* different views, no resolve target, no depth-stencil attachment
ColorLists ==
    { << v >> : v \in Views }
    \cup { s \in Views \X Views : s[1] # s[2] }

\* the encoder c1 and a command buffer c2 that was finished with no pass
FrameCmbs == {"c1", "c2"}

\* a hal command buffer taken from the pool of command buffer c, and the
\* commands recorded in it
List(c, cmds) == [owner |-> c, cmds |-> cmds]

NoList == List("none", << >>)

\* a recorded command; `of` is the number of the pass it belongs to, 0 if none
PassCmd(name, n) == [cmd |-> name, of |-> n]

NoFrameCall == [op |-> "none", colors |-> << >>, evicted |-> {}]

\* the device and one command encoder after their creation
FrameStart ==
    /\ view_guard = Views
    /\ view_index = [v \in Views |-> 0]
    /\ encoder = [state |-> "recording", raw |-> 0, barriers |-> 0, views |-> {}]
    /\ framebuffers = {}
    /\ fr_referenced = {}
    /\ fr_active = << >>
    /\ fr_free = {}
    /\ fr_index = 1
    /\ fr_last = NoFrameCall
    /\ fr_panic = "none"
    /\ fr_nops = 0
    /\ cmb_raw = [c \in FrameCmbs |-> << List(c, << >>) >>]
    /\ pass_raw = NoList
    /\ backend = << >>
    /\ fr_submitted = {}

\* no thread runs an operation, nothing is pending on the device
LockStart ==
    /\ lk_pc = [t \in Threads |-> [op |-> "idle", pos |-> 0]]
    /\ lk_held = [t \in Threads |-> {}]
    /\ lk_flags = [referenced |-> FALSE, mapped |-> FALSE, ready |-> FALSE]

\* the tracker has no entry for the buffer (a value no usage equals)
Untracked == {"untracked"}

\* an empty tracker scope, no sampler made
UnitStart ==
    /\ tk_usage = Untracked
    /\ tk_last = [old |-> Untracked, required |-> {}, result |-> "none"]
    /\ sampler_guard = {}

\* the number of values of a u32 and of a BufferAddress (u64)
U32 == MaxU32 + 1

U64 == U32 * U32

VertexSlots == 0 .. (MaxVertexBuffers - 1)

\* VertexBufferState::EMPTY
EMPTY == [total_size |-> 0, stride |-> 0, rate |-> "Vertex"]

NoVertexCall == [op |-> "none", args |-> << >>, result |-> "none"]

\* the vertex state of RenderPass::new, in a build with or without overflow
\* checks
VertexState_new(checks) ==
    /\ overflow_checks = checks
    /\ vb_inputs = [i \in VertexSlots |-> EMPTY]
    /\ vb_limits = [vertex_limit |-> 0, instance_limit |-> 0]
    /\ vb_last = NoVertexCall
    /\ vb_nops = 0

VertStart == VertexState_new(FALSE)

\* no pass is open
NoPass == [raw |-> 0, trackers |-> {}]

\* device_create_command_encoder: one begun list, an empty tracker set
CompStart ==
    /\ enc_trackers = {}
    /\ enc_raw = << 1 >>
    /\ compute_pass = NoPass
    /\ render_pass = NoPass
    /\ enc_since = [begin |-> {}, merged |-> {}]
    /\ enc_last = "none"
    /\ enc_nops = 0
    /\ enc_panic = "none"

InitLife == LifeStart /\ PassClosed /\ FrameStart /\ LockStart /\ UnitStart /\ CompStart
            /\ VertStart

\* ------------------------------------------- PendingResources (device.rs)

\* triage_referenced tears a resource down when its count is at most 3
TriageCandidate(r) == RefCount(r) <= 3

\* the early return of triage_referenced
TriageSkipsAll == \A i \in 1 .. Len(referenced) : RefCount(referenced[i]) >= MIN_REFS

\* position of the active submission with index idx, 0 when there is none
\* (active.iter_mut().find(|a| a.index == submit_index))
FindActive(act, idx) ==
    IF \E i \in 1 .. Len(act) : act[i].index = idx
    THEN CHOOSE i \in 1 .. Len(act) :
            /\ act[i].index = idx
            /\ \A j \in 1 .. i - 1 : act[j].index # idx
    ELSE 0

\* RouteNative without the search of `active`: every resource goes to `free`
RouteNative_AlwaysFree(st, r) == [st EXCEPT !.free = Append(@, r)]

\* a torn down resource goes to the submission that used it last, else to `free`
RouteNative(st, r) ==
    LET i == FindActive(st.active, submission_index[r])
    IN  IF i # 0
        THEN [st EXCEPT !.active[i].resources = Append(@, r)]
        ELSE [st EXCEPT !.free = Append(@, r)]

\* TriageOne that does not look at the pending map operation of a buffer
TriageOne_NoMapCheck(st, i) ==
    LET r == st.referenced[i]
    IN  IF ~TriageCandidate(r) THEN st
        ELSE LET st1 == [st EXCEPT !.referenced = SwapRemove(@, i)]
             IN  IF RefCount(r) # 3
                 THEN [st1 EXCEPT !.panic = "misses_references"]
                 ELSE RouteNative(
                        [st1 EXCEPT !.registered = @ \ {r},
                                    !.trackers[r] = "absent"], r)

\* one iteration of the loop of triage_referenced, at position i
TriageOne(st, i) ==
    LET r == st.referenced[i]
    IN  IF ~TriageCandidate(r) THEN st
        ELSE LET st1 == [st EXCEPT !.referenced = SwapRemove(@, i)]
             IN  IF RefCount(r) # 3
                 THEN [st1 EXCEPT !.panic = "misses_references"]
                 ELSE IF kind[r] = "Buffer" /\ pending_map_operation[r] # NoOp
                 THEN st1
                 ELSE RouteNative(
                        [st1 EXCEPT !.registered = @ \ {r},
                                    !.trackers[r] = "absent"], r)

RECURSIVE TriageLoop(_, _)
TriageLoop(st, i) ==
    IF i = 0 \/ st.panic # "none" THEN st
    ELSE TriageLoop(TriageOne(st, i), i - 1)

triage_referenced(st) ==
    IF TriageSkipsAll THEN st ELSE TriageLoop(st, Len(st.referenced))

\* where triage_mapped puts one buffer
MapTarget(act, b) == FindActive(act, submission_index[b])

RECURSIVE TriageMappedLoop(_, _)
TriageMappedLoop(st, i) ==
    IF i > Len(st.mapped) THEN [st EXCEPT !.mapped = << >>]
    ELSE LET b == st.mapped[i]
             a == MapTarget(st.active, b)
         IN  TriageMappedLoop(
                IF a # 0
                THEN [st EXCEPT !.active[a].mapped = Append(@, b)]
                ELSE [st EXCEPT !.ready_to_map = Append(@, b)],
                i + 1)

triage_mapped(st) == TriageMappedLoop(st, 1)

\* DoneCount that stops after the first submission
DoneCount_OnlyFirst(act) ==
    IF act # << >> /\ FenceSignaled(act[1].index) THEN 1 ELSE 0

\* number of leading submissions whose fence is signaled
DoneCount(act) ==
    IF \E i \in 1 .. Len(act) : ~FenceSignaled(act[i].index)
    THEN (CHOOSE i \in 1 .. Len(act) :
            /\ ~FenceSignaled(act[i].index)
            /\ \A j \in 1 .. i - 1 : FenceSignaled(act[j].index)) - 1
    ELSE Len(act)

RECURSIVE Flatten(_, _, _)
Flatten(act, n, field) ==
    IF n = 0 THEN << >>
    ELSE Flatten(act, n - 1, field) \o
         (IF field = "resources" THEN act[n].resources ELSE act[n].mapped)

\* cleanup, after the wait of force_wait
cleanup(st) ==
    LET done_count == DoneCount(st.active)
    IN  IF done_count = 0 THEN [st EXCEPT !.last_done = 0]
        ELSE LET toFree == st.free \o Flatten(st.active, done_count, "resources")
             IN  [st EXCEPT
                    !.last_done = st.active[done_count].index,
                    !.retired = @ \cup { st.active[i].index : i \in 1 .. done_count },
                    !.ready_to_map = @ \o Flatten(st.active, done_count, "mapped"),
                    !.active = SubSeq(@, done_count + 1, Len(@)),
                    !.destroyed = @ \cup Range(toFree),
                    !.free = << >>]

\* handle_mapping: the (operation, result) pairs, okSet being the buffers the
\* backend manages to map
handle_mapping(rtm, okSet) ==
    [ i \in 1 .. Len(rtm) |->
        [buf |-> rtm[i],
         op |-> pending_map_operation[rtm[i]],
         result |-> IF rtm[i] \in okSet THEN "Ok" ELSE "Err"] ]

PendingState ==
    [referenced |-> referenced, registered |-> registered, trackers |-> trackers,
     mapped |-> mapped, active |-> active, free |-> free,
     ready_to_map |-> ready_to_map, destroyed |-> nativeDestroyed,
     retired |-> retired, last_done |-> 0, panic |-> "none"]

\* Device::maintain run by thread t
maintain(t, force_wait, okSet) ==
    /\ force_wait => \A i \in 1 .. Len(active) : FenceSignaled(active[i].index)
    /\ LET st == cleanup(triage_mapped(triage_referenced(PendingState)))
           rtm == st.ready_to_map
           unwrapFails == \E i \in 1 .. Len(rtm) : pending_map_operation[rtm[i]] = NoOp
       IN  /\ referenced' = st.referenced
           /\ registered' = st.registered
           /\ trackers' = st.trackers
           /\ mapped' = st.mapped
           /\ active' = st.active
           /\ free' = st.free
           /\ nativeDestroyed' = st.destroyed
           /\ retired' = st.retired
           /\ panic' = IF st.panic # "none" THEN st.panic
                       ELSE IF unwrapFails THEN "unwrap_none" ELSE "none"
           /\ IF st.panic # "none" \/ unwrapFails
              THEN /\ ready_to_map' = rtm
                   /\ UNCHANGED << pending_map_operation, callbacks >>
              ELSE /\ ready_to_map' = << >>
                   /\ pending_map_operation' =
                        [b \in Buffers |-> IF b \in Range(rtm) THEN NoOp
                                           ELSE pending_map_operation[b]]
                   /\ callbacks' = [callbacks EXCEPT ![t] = handle_mapping(rtm, okSet)]

\* ------------------------------------------------- lifecycle: operations

Live == panic = "none"

\* a pass that used resource r is ended on encoder c: the use, and a strong
\* reference, enter the command buffer's trackers
RecordUse(c, r) ==
    /\ Live
    /\ UNCHANGED << passVars, frameVars, lockVars, unitVars, vertVars, compVars >>
    /\ cmb[c].state = "recording"
    /\ r \in registered
    /\ r \notin cmb[c].used
    /\ cmb' = [cmb EXCEPT ![c].used = @ \cup {r}]
    /\ UNCHANGED << registered, trackers, submission_index,
                    pending_map_operation, device_index, mapped, referenced,
                    active, free, ready_to_map, pc, targ, callbacks, gpuDone,
                    nativeDestroyed, retired, subUsed, cbLog, nextOp, panic >>

\* buffer_destroy / texture_destroy / texture_view_destroy / bind_group_destroy
ResourceDestroy(r) ==
    /\ Live
    /\ UNCHANGED << passVars, frameVars, lockVars, unitVars, vertVars, compVars >>
    /\ r \in registered
    /\ r \notin Range(referenced)
    /\ referenced' = Append(referenced, r)
    /\ UNCHANGED << registered, trackers, submission_index,
                    pending_map_operation, device_index, cmb, mapped, active,
                    free, ready_to_map, pc, targ, callbacks, gpuDone,
                    nativeDestroyed, retired, subUsed, cbLog, nextOp, panic >>

UsedBy(cs) == UNION { cmb[c].used : c \in cs }

\* what stitching the command buffers into the device tracker leaves there
StitchedTrackers(cs) ==
    [r \in Res |-> IF r \in UsedBy(cs) /\ kind[r] \in {"Buffer", "Texture"}
                   THEN "COPY_DST" ELSE trackers[r]]

\* device_create_command_encoder: a new encoder takes the id of a command
\* buffer that was submitted and unregistered
device_create_command_encoder(c) ==
    /\ Live
    /\ UNCHANGED << passVars, frameVars, lockVars, unitVars, vertVars, compVars >>
    /\ cmb[c].state = "submitted"
    /\ cmb' = [cmb EXCEPT ![c] = [state |-> "recording", used |-> {}]]
    /\ UNCHANGED << registered, trackers, submission_index,
                    pending_map_operation, device_index, mapped, referenced,
                    active, free, ready_to_map, pc, targ, callbacks, gpuDone,
                    nativeDestroyed, retired, subUsed, cbLog, nextOp, panic >>

\* submission_index.fetch_add(1) that loses the addition
fetch_add_Lost(counter) == counter

\* life_guard.submission_index.fetch_add(1, Ordering::Relaxed): the value the
\* counter holds afterwards
fetch_add(counter) == counter + 1

\* a store that keeps an index the resource already carries
store_KeepFirst(old, submit_index) == IF old = 0 THEN submit_index ELSE old

\* life_guard.submission_index.store(submit_index, Ordering::Release): the
\* value the resource carries afterwards
store(old, submit_index) == submit_index

\* queue_submit, first block (under devices.write): the index is taken, the
\* resources are stamped with it and the work is handed to the queue
QueueSubmitIssue(t, cs) ==
    /\ Live
    /\ UNCHANGED << passVars, frameVars, lockVars, unitVars, vertVars, compVars >>
    /\ pc[t] = "idle"
    /\ CallsMade < MaxCalls
    /\ \A c \in cs : cmb[c].state = "recording"
    /\ DevReaders = {}
    /\ IF \E b \in UsedBy(cs) \cap Buffers : pending_map_operation[b] # NoOp
       THEN /\ panic' = "submit_pending_map"
            /\ device_index' = fetch_add(device_index)
            /\ UNCHANGED << submission_index, trackers, subUsed, pc, targ, cmb >>
       ELSE LET submit_index == 1 + device_index
            IN  /\ device_index' = fetch_add(device_index)
                /\ submission_index' =
                     [r \in Res |-> IF r \in UsedBy(cs)
                                    THEN store(submission_index[r], submit_index)
                                    ELSE submission_index[r]]
                /\ trackers' = StitchedTrackers(cs)
                /\ subUsed' = [subUsed EXCEPT ![submit_index] = UsedBy(cs)]
                /\ pc' = [pc EXCEPT ![t] = "submit_gap"]
                /\ targ' = [targ EXCEPT ![t] = [NoArg EXCEPT !.idx = submit_index,
                                                             !.cmbs = cs]]
                /\ cmb' = [c \in Cmbs |-> IF c \in cs
                                          THEN [cmb[c] EXCEPT !.state = "submitting"]
                                          ELSE cmb[c]]
                /\ UNCHANGED panic
    /\ UNCHANGED << registered, pending_map_operation, mapped,
                    referenced, active, free, ready_to_map, callbacks, gpuDone,
                    nativeDestroyed, retired, cbLog, nextOp >>

\* queue_submit, second block: device.maintain(false)
QueueSubmitMaintain(t) ==
    /\ Live
    /\ UNCHANGED << passVars, frameVars, lockVars, unitVars, vertVars, compVars >>
    /\ pc[t] = "submit_gap"
    /\ \E okSet \in SUBSET Buffers : maintain(t, FALSE, okSet)
    /\ pc' = [pc EXCEPT ![t] = "submit_push"]
    /\ UNCHANGED << submission_index, device_index, cmb, targ, gpuDone,
                    subUsed, cbLog, nextOp >>

\* queue_submit, second block: the ActiveSubmission is pushed
QueueSubmitPush(t) ==
    /\ Live
    /\ UNCHANGED << passVars, frameVars, lockVars, unitVars, vertVars, compVars >>
    /\ pc[t] = "submit_push"
    /\ active' = Append(active, [index |-> targ[t].idx,
                                 resources |-> << >>, mapped |-> << >>])
    /\ pc' = [pc EXCEPT ![t] = "submit_after"]
    /\ UNCHANGED << registered, trackers, submission_index,
                    pending_map_operation, device_index, cmb, mapped, referenced,
                    free, ready_to_map, targ, callbacks, gpuDone,
                    nativeDestroyed, retired, subUsed, cbLog, nextOp, panic >>

\* queue_submit, second block: the command buffers are unregistered and
\* returned to the allocator, which lets go of their trackers
QueueSubmitAfter(t) ==
    /\ Live
    /\ UNCHANGED << passVars, frameVars, lockVars, unitVars, vertVars, compVars >>
    /\ pc[t] = "submit_after"
    /\ cmb' = [c \in Cmbs |-> IF c \in targ[t].cmbs
                              THEN [state |-> "submitted", used |-> {}]
                              ELSE cmb[c]]
    /\ IF callbacks[t] = << >>
       THEN /\ pc' = [pc EXCEPT ![t] = "idle"]
            /\ targ' = [targ EXCEPT ![t] = NoArg]
       ELSE /\ pc' = [pc EXCEPT ![t] = "submit_fire"]
            /\ UNCHANGED targ
    /\ UNCHANGED << registered, trackers, submission_index,
                    pending_map_operation, device_index, mapped, referenced,
                    active, free, ready_to_map, callbacks, gpuDone,
                    nativeDestroyed, retired, subUsed, cbLog, nextOp, panic >>

\* the map operations requested and not yet answered: the buffer is queued in
\* `mapped`, in an active submission or in `ready_to_map`, or its callback is
\* in a list that some thread has still to fire
RequestedOps ==
    { pending_map_operation[b].id :
        b \in { x \in Buffers :
                  \/ x \in Range(mapped) \cup Range(ready_to_map)
                  \/ \E i \in 1 .. Len(active) : x \in Range(active[i].mapped) } }
    \cup UNION { { callbacks[t][i].op.id : i \in 1 .. Len(callbacks[t]) } :
                   t \in Threads }

\* the user callback of one (operation, result) pair, as invoked by thread t
FiredCallback(t, cb) ==
    [op |-> cb.op.id, buf |-> cb.buf,
     status |-> IF cb.result = "Ok" THEN "Success" ELSE "Error",
     ptr |-> IF cb.result = "Ok" THEN "valid" ELSE "null",
     locks |-> HeldLocks(t),
     site |-> "fire_map_callbacks"]

\* Device::fire_map_callbacks at the end of queue_submit and device_poll
FireMapCallbacks(t) ==
    /\ Live
    /\ UNCHANGED << passVars, frameVars, lockVars, unitVars, vertVars, compVars >>
    /\ pc[t] \in {"submit_fire", "poll_fire"}
    /\ cbLog' = cbLog \cup
                { FiredCallback(t, callbacks[t][i]) : i \in 1 .. Len(callbacks[t]) }
    /\ callbacks' = [callbacks EXCEPT ![t] = << >>]
    /\ pc' = [pc EXCEPT ![t] = "idle"]
    /\ targ' = [targ EXCEPT ![t] = NoArg]
    /\ UNCHANGED << registered, trackers, submission_index,
                    pending_map_operation, device_index, cmb, mapped, referenced,
                    active, free, ready_to_map, gpuDone, nativeDestroyed,
                    retired, subUsed, nextOp, panic >>

\* device_poll up to the release of the device guard
DevicePoll(t, force_wait) ==
    /\ Live
    /\ UNCHANGED << passVars, frameVars, lockVars, unitVars, vertVars, compVars >>
    /\ pc[t] = "idle"
    /\ \E okSet \in SUBSET Buffers : maintain(t, force_wait, okSet)
    /\ IF callbacks'[t] = << >> /\ ~force_wait
       THEN UNCHANGED << pc, targ >>
       ELSE /\ pc' = [pc EXCEPT ![t] = "poll_fire"]
            /\ targ' = [targ EXCEPT ![t] =
                          [NoArg EXCEPT !.idx = IF force_wait THEN 1 ELSE 0,
                                        !.ops = RequestedOps]]
    /\ UNCHANGED << submission_index, device_index, cmb, gpuDone,
                    subUsed, cbLog, nextOp >>

\* BufferMapOperation::call_error
call_error(n, b) ==
    [op |-> n, buf |-> b, status |-> "Error", ptr |-> "null",
     locks |-> CallErrorLocks, site |-> "call_error"]

\* BufferMapAsync without the early return: the new operation replaces the
\* pending one after call_error
BufferMapAsync_NoReturn(t, b, k) ==
    /\ Live
    /\ UNCHANGED << passVars, frameVars, lockVars, unitVars, vertVars, compVars >>
    /\ pc[t] = "idle"
    /\ CallsMade < MaxCalls
    /\ b \in registered
    /\ nextOp' = nextOp + 1
    /\ cbLog' = IF pending_map_operation[b] # NoOp
                THEN cbLog \cup { call_error(nextOp, b) } ELSE cbLog
    /\ pending_map_operation' =
         [pending_map_operation EXCEPT ![b] = MapOp(nextOp, k)]
    /\ pc' = [pc EXCEPT ![t] = "map_tracker"]
    /\ targ' = [targ EXCEPT ![t] = [NoArg EXCEPT !.buf = b,
                                                 !.op = MapOp(nextOp, k)]]
    /\ UNCHANGED << registered, trackers, submission_index, device_index,
                    cmb, mapped, referenced, active, free, ready_to_map,
                    callbacks, gpuDone, nativeDestroyed, retired, subUsed, panic >>

\* buffer_map_async, the block under buffers.write
BufferMapAsync(t, b, k) ==
    /\ Live
    /\ UNCHANGED << passVars, frameVars, lockVars, unitVars, vertVars, compVars >>
    /\ pc[t] = "idle"
    /\ CallsMade < MaxCalls
    /\ b \in registered
    /\ nextOp' = nextOp + 1
    /\ IF pending_map_operation[b] # NoOp
       THEN /\ cbLog' = cbLog \cup { call_error(nextOp, b) }
            /\ UNCHANGED << pending_map_operation, pc, targ >>
       ELSE /\ pending_map_operation' =
                 [pending_map_operation EXCEPT ![b] = MapOp(nextOp, k)]
            /\ pc' = [pc EXCEPT ![t] = "map_tracker"]
            /\ targ' = [targ EXCEPT ![t] = [NoArg EXCEPT !.buf = b,
                                                         !.op = MapOp(nextOp, k)]]
            /\ UNCHANGED cbLog
    /\ UNCHANGED << registered, trackers, submission_index, device_index,
                    cmb, mapped, referenced, active, free, ready_to_map,
                    callbacks, gpuDone, nativeDestroyed, retired, subUsed, panic >>

\* buffer_map_async after the block: trackers.buffers.change_replace(buffer_id,
\* .., usage), then pending.map(buffer_id, ref_count)
BufferMapTracker(t) ==
    /\ Live
    /\ UNCHANGED << passVars, frameVars, lockVars, unitVars, vertVars, compVars >>
    /\ pc[t] = "map_tracker"
    /\ trackers' = [trackers EXCEPT ![targ[t].buf] = MapUsage(targ[t].op.kind)]
    /\ mapped' = Append(mapped, targ[t].buf)
    /\ pc' = [pc EXCEPT ![t] = "idle"]
    /\ targ' = [targ EXCEPT ![t] = NoArg]
    /\ UNCHANGED << registered, submission_index, pending_map_operation,
                    device_index, cmb, referenced, active, free,
                    ready_to_map, callbacks, gpuDone, nativeDestroyed,
                    retired, subUsed, cbLog, nextOp, panic >>

\* the queue finishes its oldest unfinished submission and signals its fence
GpuProgress ==
    /\ gpuDone < device_index
    /\ UNCHANGED << passVars, frameVars, lockVars, unitVars, vertVars, compVars >>
    /\ gpuDone' = gpuDone + 1
    /\ UNCHANGED << registered, trackers, submission_index,
                    pending_map_operation, device_index, cmb, mapped, referenced,
                    active, free, ready_to_map, pc, targ, callbacks,
                    nativeDestroyed, retired, subUsed, cbLog, nextOp, panic >>

NextLife ==
    \/ \E c \in Cmbs : device_create_command_encoder(c)
    \/ \E c \in Cmbs, r \in Res : RecordUse(c, r)
    \/ \E r \in Res : ResourceDestroy(r)
    \/ \E t \in Threads, cs \in SUBSET Cmbs : QueueSubmitIssue(t, cs)
    \/ \E t \in Threads : QueueSubmitMaintain(t)
    \/ \E t \in Threads : QueueSubmitPush(t)
    \/ \E t \in Threads : QueueSubmitAfter(t)
    \/ \E t \in Threads : FireMapCallbacks(t)
    \/ \E t \in Threads, force_wait \in BOOLEAN : DevicePoll(t, force_wait)
    \/ \E t \in Threads, b \in Buffers, k \in {"Read", "Write"} : BufferMapAsync(t, b, k)
    \/ \E t \in Threads : BufferMapTracker(t)
    \/ GpuProgress

SpecLife == InitLife /\ [][NextLife]_vars

\* ------------------------------------------------- lifecycle: properties

\* submission indices handed out so far
Issued == 2 .. device_index

\* the submission is on the queue and the queue has not finished it
InFlight(s) == s \in Issued /\ ~FenceSignaled(s)

\* C1: a resource is handed to the backend destructor only after every
\* submission that used it had its fence observed signaled by maintain and was
\* drained from `active`.
C1_DestroyAfterRetire ==
    \A r \in nativeDestroyed :
        \A s \in SubIndices : r \in subUsed[s] => s \in retired /\ FenceSignaled(s)

\* a resource that a submission used has been destroyed by the backend
C1_Witness ==
    \E r \in nativeDestroyed : \E s \in SubIndices : r \in subUsed[s]

\* C2: no maintain collects the map callback of a buffer (moving it through
\* ready_to_map) while the submission that used the buffer last is in flight.
C2_NoMapWhileInFlight ==
    [][\A t \in Threads :
          callbacks'[t] # callbacks[t] =>
              \A i \in 1 .. Len(callbacks'[t]) :
                  ~InFlight(submission_index[callbacks'[t][i].buf])]_vars

\* a force_wait device_poll of thread t completes its maintain
ForcePollMaintained(t) ==
    /\ pc[t] = "idle" /\ pc'[t] = "poll_fire"
    /\ targ'[t].idx = 1 /\ panic' = "none"

\* a force_wait device_poll of thread t returns
ForcePollReturns(t) ==
    pc[t] = "poll_fire" /\ targ[t].idx = 1 /\ pc'[t] = "idle"

\* the buffers queued for mapping on the device
QueuedForMap ==
    Range(mapped) \cup Range(ready_to_map)
    \cup UNION { Range(active[i].mapped) : i \in 1 .. Len(active) }

\* the log holds the invocation of operation n
Invoked(log, n) == \E e \in log : e.op = n

\* C3 as stated: when device_poll(force_wait = true) returns, `active` is empty
\* and every map requested before the call has had its callback invoked.
C3_AfterForcePoll ==
    [][\A t \in Threads :
          ForcePollReturns(t) =>
              /\ active' = << >>
              /\ \A n \in targ[t].ops : Invoked(cbLog', n)]_vars

\* C3 amended: when the maintain of device_poll(force_wait = true) completes,
\* `active`, `mapped` and `ready_to_map` are empty and every buffer that was
\* queued for mapping has its operation in the poll's callback list; when the
\* poll returns each of these has been invoked, with Success and a pointer
\* exactly when the backend map succeeded, with Error and null otherwise.
C3_ForcePollDrains ==
    [][\A t \in Threads :
          /\ ForcePollMaintained(t) =>
                /\ active' = << >> /\ mapped' = << >> /\ ready_to_map' = << >>
                /\ \A b \in QueuedForMap :
                      \E i \in 1 .. Len(callbacks'[t]) :
                          /\ callbacks'[t][i].buf = b
                          /\ callbacks'[t][i].op = pending_map_operation[b]
          /\ ForcePollReturns(t) =>
                \A i \in 1 .. Len(callbacks[t]) :
                    \E e \in cbLog' :
                        /\ e.op = callbacks[t][i].op.id
                        /\ e.locks = {}
                        /\ IF callbacks[t][i].result = "Ok"
                           THEN e.status = "Success" /\ e.ptr = "valid"
                           ELSE e.status = "Error" /\ e.ptr = "null"]_vars

\* a force_wait poll has retired a submission and holds a successful mapping
C3_Witness ==
    \E t \in Threads :
        /\ pc[t] = "poll_fire" /\ targ[t].idx = 1
        /\ retired # {} /\ active = << >>
        /\ \E i \in 1 .. Len(callbacks[t]) : callbacks[t][i].result = "Ok"

\* C4: submissions retire in the order of their indices.
C4_RetireInOrder ==
    \A s1 \in Issued, s2 \in Issued :
        (s1 < s2 /\ s2 \in retired) => s1 \in retired

\* the buffer_map_async call made in this step is for buffer b
MapCallFor(b) ==
    /\ nextOp' # nextOp
    /\ \/ \E e \in cbLog' \ cbLog : e.buf = b
       \/ \E t \in Threads : pc[t] = "idle" /\ pc'[t] = "map_tracker"
                             /\ targ'[t].buf = b

\* C5: buffer_map_async on a buffer whose map operation is pending invokes the
\* new callback at once with Error and a null pointer and changes nothing
\* else: the pending operation stays, the tracker keeps its usage and the
\* buffer is not queued in `mapped` again.
C5_DuplicateMapRejected ==
    [][\A b \in Buffers :
          (MapCallFor(b) /\ pending_map_operation[b] # NoOp) =>
              /\ cbLog' = cbLog \cup
                    { [op |-> nextOp, buf |-> b, status |-> "Error",
                       ptr |-> "null", locks |-> CallErrorLocks,
                       site |-> "call_error"] }
              /\ pending_map_operation' = pending_map_operation
              /\ trackers' = trackers
              /\ mapped' = mapped
              /\ pc' = pc /\ callbacks' = callbacks]_vars

\* a second request was rejected while the first one is still pending
C5_Witness ==
    \E e \in cbLog :
        /\ e.site = "call_error"
        /\ pending_map_operation[e.buf] # NoOp
        /\ pending_map_operation[e.buf].id < e.op

\* C6: no user map callback is invoked while the calling thread holds a
\* store lock or a device mutex.
C6_CallbacksWithoutLocks == \A e \in cbLog : e.locks = {}


\* ------------------------------------------------------ passes: operations

\* RenderPass::new / ComputePass::new
PassNew(k, dbg) ==
    /\ passKind = k
    /\ debug_assertions = dbg
    /\ binder = DefaultBinder
    /\ blend_color_status = "Unused"
    /\ stencil_reference_status = "Unused"
    /\ vertex_state = [vertex_limit |-> Limit(0), instance_limit |-> Limit(0)]
    /\ pass_trackers = {}
    /\ recorded = << >>
    /\ last = NoCall
    /\ passError = NoError
    /\ nops = 0
    /\ descriptor_sets = [i \in Slots |-> "none"]

InitBind ==
    /\ LifeStart
    /\ FrameStart
    /\ LockStart
    /\ UnitStart /\ CompStart
    /\ VertStart
    /\ \E k \in {"render", "compute"}, dbg \in BOOLEAN : PassNew(k, dbg)

\* the pass of kind k accepts another operation
PassLive(k) == passKind = k /\ passError = NoError /\ nops < MaxPassOps

Call(op, index, group, offsets) ==
    [op |-> op, index |-> index, group |-> group, offsets |-> offsets,
     before |-> IF op = "set_bind_group" THEN binder.entries[index]
                ELSE DefaultEntry]

\* OptionalState::require
require(status, required) ==
    IF required /\ status = "Unused" THEN "Required" ELSE status

\* RenderPass::is_ready: the DrawError, NoError for Ok(())
is_ready(b, blend, stencil) ==
    LET bind_mask == invalid_mask(b)
    IN  IF bind_mask # 0
        THEN [err |-> "IncompatibleBindGroup", index |-> trailing_zeros(bind_mask)]
        ELSE IF blend = "Required" THEN [err |-> "MissingBlendColor", index |-> 0]
        ELSE IF stencil = "Required"
        THEN [err |-> "MissingStencilReference", index |-> 0]
        ELSE NoError

\* n <= limit for a u32 limit
WithinLimit(n, limit) == limit.max \/ n <= limit.n

\* what the backend holds after the commands: bind_graphics_descriptor_sets
\* and bind_compute_descriptor_sets put sets at first, first + 1, ..
RECURSIVE bind_descriptor_sets(_, _)
bind_descriptor_sets(held, cmds) ==
    IF cmds = << >> THEN held
    ELSE LET c == Head(cmds)
         IN  bind_descriptor_sets(
                [i \in Slots |->
                    IF i >= c.first /\ i < c.first + Len(c.sets)
                    THEN c.sets[i - c.first + 1]
                    ELSE held[i]],
                Tail(cmds))

\* the loop of set_pipeline over the bind group layouts of the pipeline layout
RECURSIVE RebindLoop(_, _, _, _, _, _)
RebindLoop(b, layout, point, index, is_compatible, cmds) ==
    LET ids == pipeline_layout_guard[layout]
    IN  IF index >= Min(Len(ids), MAX_BIND_GROUPS)
        THEN [binder |-> b, cmds |-> cmds]
        ELSE LET e == expect_layout(b.entries[index], ids[index + 1])
                 b1 == [b EXCEPT !.entries[index] = e.entry]
             IN  IF e.change = "Match" /\ is_compatible
                 THEN RebindLoop(b1, layout, point, index + 1, TRUE,
                        Append(cmds,
                               BindCmd(point, layout, index,
                                       << e.entry.provided.group_id >>,
                                       e.entry.dynamic_offsets)))
                 ELSE RebindLoop(b1, layout, point, index + 1,
                                 is_compatible /\ e.change # "Mismatch", cmds)

\* set_pipeline: "Rebind resources"
Rebind(b, layout, point) ==
    IF b.pipeline_layout_id # layout
    THEN RebindLoop(
            reset_expectations([b EXCEPT !.pipeline_layout_id = layout],
                               Len(pipeline_layout_guard[layout])),
            layout, point, 0, TRUE, << >>)
    ELSE [binder |-> b, cmds |-> << >>]

\* render_pass_set_pipeline, with a pipeline that fits the pass (context and
\* sample count) and no index buffer bound
render_pass_set_pipeline(q) ==
    /\ PassLive("render")
    /\ LET r == Rebind(binder, pipeline_guard[q].layout_id,
                       "bind_graphics_descriptor_sets")
       IN  /\ binder' = r.binder
           /\ recorded' = << Cmd("bind_graphics_pipeline") >> \o r.cmds
    /\ blend_color_status' =
         require(blend_color_status, "BLEND_COLOR" \in pipeline_guard[q].flags)
    /\ stencil_reference_status' =
         require(stencil_reference_status,
                 "STENCIL_REFERENCE" \in pipeline_guard[q].flags)
    /\ vertex_state' = [vertex_limit |-> NoLimit, instance_limit |-> NoLimit]
    /\ last' = Call("set_pipeline", 0, q, << >>)
    /\ nops' = nops + 1
    /\ UNCHANGED << passKind, debug_assertions, pass_trackers, passError >>
    /\ descriptor_sets' = bind_descriptor_sets(descriptor_sets, recorded')
    /\ UNCHANGED << lifeVars, frameVars, lockVars, unitVars, vertVars, compVars >>

\* compute_pass_set_pipeline
compute_pass_set_pipeline(q) ==
    /\ PassLive("compute")
    /\ LET r == Rebind(binder, pipeline_guard[q].layout_id,
                       "bind_compute_descriptor_sets")
       IN  /\ binder' = r.binder
           /\ recorded' = << Cmd("bind_compute_pipeline") >> \o r.cmds
    /\ last' = Call("set_pipeline", 0, q, << >>)
    /\ nops' = nops + 1
    /\ UNCHANGED << passKind, debug_assertions, blend_color_status,
                    stencil_reference_status, vertex_state, pass_trackers,
                    passError >>
    /\ descriptor_sets' = bind_descriptor_sets(descriptor_sets, recorded')
    /\ UNCHANGED << lifeVars, frameVars, lockVars, unitVars, vertVars, compVars >>

\* the alignment check with half the alignment
Misaligned_HalfAlignment(offsets) ==
    \E i \in 1 .. Len(offsets) : offsets[i] % (BIND_BUFFER_ALIGNMENT \div 2) # 0

\* an offset that BIND_BUFFER_ALIGNMENT does not divide
Misaligned(offsets) ==
    \E i \in 1 .. Len(offsets) : offsets[i] % BIND_BUFFER_ALIGNMENT # 0

\* the body the two set_bind_group functions share: use_extend, the checks of
\* the offsets, provide_entry and the backend bind
SetBindGroup(point, index, bind_group_id, offsets) ==
    /\ pass_trackers' = pass_trackers \cup {bind_group_id}
    /\ last' = Call("set_bind_group", index, bind_group_id, offsets)
    /\ nops' = nops + 1
    /\ IF bind_group_guard[bind_group_id].dynamic_count # Len(offsets)
       THEN /\ passError' = [err |-> "dynamic_count", index |-> index]
            /\ recorded' = << >>
            /\ UNCHANGED binder
       ELSE IF debug_assertions /\ Misaligned(offsets)
       THEN /\ passError' = [err |-> "Misaligned", index |-> index]
            /\ recorded' = << >>
            /\ UNCHANGED binder
       ELSE LET r == provide_entry(binder, index, bind_group_id, offsets)
            IN  /\ binder' = r.binder
                /\ recorded' =
                     IF r.some
                     THEN << BindCmd(point, r.pipeline_layout_id, index,
                                     << bind_group_id >> \o r.follow_up_sets,
                                     offsets \o r.follow_up_offsets) >>
                     ELSE << >>
                /\ UNCHANGED passError
    /\ UNCHANGED << passKind, debug_assertions, blend_color_status,
                    stencil_reference_status, vertex_state >>
    /\ descriptor_sets' = bind_descriptor_sets(descriptor_sets, recorded')
    /\ UNCHANGED << lifeVars, frameVars, lockVars, unitVars, vertVars, compVars >>

\* render_pass_set_bind_group
render_pass_set_bind_group(index, bind_group_id, offsets) ==
    /\ PassLive("render")
    /\ SetBindGroup("bind_graphics_descriptor_sets", index, bind_group_id, offsets)

\* compute_pass_set_bind_group (the barriers it inserts depend on the tracker
\* alone and are left out of `recorded`)
compute_pass_set_bind_group(index, bind_group_id, offsets) ==
    /\ PassLive("compute")
    /\ SetBindGroup("bind_compute_descriptor_sets", index, bind_group_id, offsets)

\* render_pass_draw(vertex_count, instance_count, 0, 0)
render_pass_draw(vertex_count, instance_count) ==
    /\ PassLive("render")
    /\ LET ready == is_ready(binder, blend_color_status, stencil_reference_status)
       IN  IF ready # NoError
           THEN passError' = ready /\ recorded' = << >>
           ELSE IF ~WithinLimit(vertex_count, vertex_state.vertex_limit)
           THEN /\ passError' = [err |-> "Vertex out of range", index |-> 0]
                /\ recorded' = << >>
           ELSE IF ~WithinLimit(instance_count, vertex_state.instance_limit)
           THEN /\ passError' = [err |-> "Instance out of range", index |-> 0]
                /\ recorded' = << >>
           ELSE recorded' = << Cmd("draw") >> /\ UNCHANGED passError
    /\ last' = Call("draw", vertex_count, "none", << >>)
    /\ nops' = nops + 1
    /\ UNCHANGED << passKind, debug_assertions, binder, blend_color_status,
                    stencil_reference_status, vertex_state, pass_trackers >>
    /\ descriptor_sets' = bind_descriptor_sets(descriptor_sets, recorded')
    /\ UNCHANGED << lifeVars, frameVars, lockVars, unitVars, vertVars, compVars >>

\* render_pass_set_blend_color
render_pass_set_blend_color ==
    /\ PassLive("render")
    /\ blend_color_status' = "Set"
    /\ recorded' = << Cmd("set_blend_constants") >>
    /\ last' = Call("set_blend_color", 0, "none", << >>)
    /\ nops' = nops + 1
    /\ UNCHANGED << passKind, debug_assertions, binder, stencil_reference_status,
                    vertex_state, pass_trackers, passError >>
    /\ descriptor_sets' = bind_descriptor_sets(descriptor_sets, recorded')
    /\ UNCHANGED << lifeVars, frameVars, lockVars, unitVars, vertVars, compVars >>

\* render_pass_set_stencil_reference
render_pass_set_stencil_reference ==
    /\ PassLive("render")
    /\ stencil_reference_status' = "Set"
    /\ recorded' = << Cmd("set_stencil_reference") >>
    /\ last' = Call("set_stencil_reference", 0, "none", << >>)
    /\ nops' = nops + 1
    /\ UNCHANGED << passKind, debug_assertions, binder, blend_color_status,
                    vertex_state, pass_trackers, passError >>
    /\ descriptor_sets' = bind_descriptor_sets(descriptor_sets, recorded')
    /\ UNCHANGED << lifeVars, frameVars, lockVars, unitVars, vertVars, compVars >>

\* compute_pass_dispatch
compute_pass_dispatch ==
    /\ PassLive("compute")
    /\ recorded' = << Cmd("dispatch") >>
    /\ last' = Call("dispatch", 0, "none", << >>)
    /\ nops' = nops + 1
    /\ UNCHANGED << passKind, debug_assertions, binder, blend_color_status,
                    stencil_reference_status, vertex_state, pass_trackers,
                    passError >>
    /\ descriptor_sets' = bind_descriptor_sets(descriptor_sets, recorded')
    /\ UNCHANGED << lifeVars, frameVars, lockVars, unitVars, vertVars, compVars >>

\* compute_pass_dispatch_indirect
compute_pass_dispatch_indirect ==
    /\ PassLive("compute")
    /\ recorded' = << Cmd("pipeline_barrier"), Cmd("dispatch_indirect") >>
    /\ last' = Call("dispatch_indirect", 0, "none", << >>)
    /\ nops' = nops + 1
    /\ UNCHANGED << passKind, debug_assertions, binder, blend_color_status,
                    stencil_reference_status, vertex_state, pass_trackers,
                    passError >>
    /\ descriptor_sets' = bind_descriptor_sets(descriptor_sets, recorded')
    /\ UNCHANGED << lifeVars, frameVars, lockVars, unitVars, vertVars, compVars >>

NextBind ==
    \/ \E q \in Pipelines : render_pass_set_pipeline(q)
    \/ \E q \in Pipelines : compute_pass_set_pipeline(q)
    \/ \E i \in BindIndices, g \in BindGroups, o \in OffsetLists :
          render_pass_set_bind_group(i, g, o)
    \/ \E i \in BindIndices, g \in BindGroups, o \in OffsetLists :
          compute_pass_set_bind_group(i, g, o)
    \/ \E n \in {0, 3} : render_pass_draw(n, 1)
    \/ render_pass_set_blend_color
    \/ render_pass_set_stencil_reference
    \/ compute_pass_dispatch
    \/ compute_pass_dispatch_indirect

SpecBind == InitBind /\ [][NextBind]_vars

\* ---------------------------------------------------- passes: properties

\* bit i of a mask
Bit(mask, i) == (mask \div (2 ^ i)) % 2

\* the slot expects a layout and holds a group of that layout
SlotBound(b, i) ==
    /\ b.entries[i].expected_layout_id # "none"
    /\ b.entries[i].provided # NoPair
    /\ b.entries[i].provided.layout_id = b.entries[i].expected_layout_id

\* the slot expects a layout and holds no group, or a group of another layout
SlotInvalid(b, i) ==
    b.entries[i].expected_layout_id # "none" /\ ~SlotBound(b, i)

\* C7: bit i of invalid_mask is set exactly for the slots i whose expected
\* layout is set and whose provided group is missing or of another layout, and
\* a draw on a render pass with a non-zero mask fails with
\* IncompatibleBindGroup whose index is the lowest set bit, recording nothing.
C7_InvalidMaskAndDraw ==
    /\ \A i \in Slots : (Bit(invalid_mask(binder), i) = 1) <=> SlotInvalid(binder, i)
    /\ invalid_mask(binder) < 2 ^ MAX_BIND_GROUPS
    /\ (last.op = "draw" /\ \E i \in Slots : SlotInvalid(binder, i)) =>
          /\ passError.err = "IncompatibleBindGroup"
          /\ SlotInvalid(binder, passError.index)
          /\ \A j \in 0 .. passError.index - 1 : ~SlotInvalid(binder, j)
          /\ recorded = << >>

\* a draw was refused for slot 1 while slots 1 and 2 are both invalid
C7_Witness ==
    /\ last.op = "draw"
    /\ passError = [err |-> "IncompatibleBindGroup", index |-> 1]
    /\ SlotInvalid(binder, 1) /\ SlotInvalid(binder, 2)
    /\ SlotBound(binder, 0)

\* C8: a dispatch or dispatch_indirect on a compute pass whose binder has a
\* non-zero invalid_mask records no backend dispatch.
C8_DispatchRefused ==
    (last.op \in {"dispatch", "dispatch_indirect"} /\ invalid_mask(binder) # 0) =>
        \A i \in 1 .. Len(recorded) :
            recorded[i].cmd \notin {"dispatch", "dispatch_indirect"}

\* this step is set_bind_group(index, ..) and it did not panic
SetBindGroupStep(index) ==
    /\ nops' = nops + 1
    /\ last'.op = "set_bind_group" /\ last'.index = index
    /\ passError' = NoError

\* the set_bind_group of this step puts a compatible group in a slot whose
\* group was compatible and is another one, or has other offsets
ReplacesCompatible(index) ==
    /\ SetBindGroupStep(index)
    /\ SlotBound(binder, index) /\ SlotBound(binder', index)
    /\ binder'.entries[index] # binder.entries[index]
    /\ index < compatible_count(binder')

\* the set_bind_group of this step puts a compatible group in a slot whose
\* group was of another layout than the expected one
ReplacesIncompatible(index) ==
    /\ SetBindGroupStep(index)
    /\ binder.entries[index].provided # NoPair
    /\ SlotInvalid(binder, index) /\ SlotBound(binder', index)
    /\ index < compatible_count(binder')

\* the first slot after index that is not bound
FollowEnd(b, index) ==
    CHOOSE k \in (index + 1) .. MAX_BIND_GROUPS :
        /\ k = MAX_BIND_GROUPS \/ ~SlotBound(b, k)
        /\ \A j \in (index + 1) .. (k - 1) : SlotBound(b, j)

\* the groups of the slots index+1 .. up to the end of the compatible prefix
PrefixGroups(b, index) ==
    [ j \in 1 .. (FollowEnd(b, index) - index - 1) |->
        b.entries[index + j].provided.group_id ]

\* the follow-up groups of the backend bind the step recorded
FollowUps(cmds) == IF cmds = << >> THEN << >> ELSE Tail(cmds[1].sets)

\* C9 as stated: replacing the group of a slot whose group was compatible by
\* another compatible group returns, as follow-ups, the groups of slots
\* index+1 up to the compatible prefix.
C9_FollowUpsAfterCompatible ==
    [][\A index \in Slots :
          ReplacesCompatible(index) =>
              /\ Len(recorded') = 1
              /\ FollowUps(recorded') = PrefixGroups(binder', index)]_vars

\* C9 amended: replacing the group of a slot whose group was compatible
\* returns no follow-up group, only the new group is bound at index with its
\* own offsets; the groups of slots index+1 up to the compatible prefix are
\* returned when the replaced group was incompatible.
C9_FollowUpsOnlyAfterIncompatible ==
    [][\A index \in Slots :
          /\ ReplacesCompatible(index) =>
                /\ Len(recorded') = 1
                /\ recorded'[1].first = index
                /\ recorded'[1].sets = << last'.group >>
                /\ recorded'[1].offsets = last'.offsets
          /\ ReplacesIncompatible(index) =>
                /\ Len(recorded') = 1
                /\ recorded'[1].first = index
                /\ recorded'[1].sets =
                      << last'.group >> \o PrefixGroups(binder', index)]_vars

\* a compatible group of slot 0 was replaced while slot 1 held a compatible
\* group, and the bind names the new group alone
C9_Witness ==
    /\ last.op = "set_bind_group" /\ last.index = 0 /\ passError = NoError
    /\ SlotBound([binder EXCEPT !.entries[0] = last.before], 0)
    /\ last.before # binder.entries[0]
    /\ SlotBound(binder, 0) /\ SlotBound(binder, 1)
    /\ Len(recorded) = 1 /\ recorded[1].sets = << last.group >>

\* C10: set_bind_group (provide_entry) with the group and the offsets the slot
\* already holds leaves the binder unchanged and records no backend bind; and
\* after any set_bind_group that did not panic the slot holds the group and
\* the offsets of the call, so that a repeated call is such a call.
C10_SameGroupIsNoOp ==
    [][\A index \in Slots :
          /\ ( /\ nops' = nops + 1
               /\ last'.op = "set_bind_group" /\ last'.index = index
               /\ binder.entries[index].provided.group_id = last'.group
               /\ binder.entries[index].dynamic_offsets = last'.offsets ) =>
                  /\ binder' = binder
                  /\ recorded' = << >>
                  /\ passError' = NoError
          /\ SetBindGroupStep(index) =>
                  /\ binder'.entries[index].provided.group_id = last'.group
                  /\ binder'.entries[index].dynamic_offsets = last'.offsets]_vars

\* a bound, compatible group was set again with the same offsets
C10_Witness ==
    /\ last.op = "set_bind_group" /\ passError = NoError
    /\ last.before.provided.group_id = last.group
    /\ last.before.dynamic_offsets = last.offsets
    /\ binder.pipeline_layout_id # "none"
    /\ SlotBound(binder, last.index)
    /\ last.index < compatible_count(binder)
    /\ recorded = << >>

\* C11: whenever provide_entry(index, ..) returns Some, the follow-up group ids
\* are those of the slots index+1, index+2, .. in this order, and each of
\* these slots expects a layout and holds a group of that layout.
C11_FollowUpsAreBoundSlots ==
    [][\A index \in Slots :
          (SetBindGroupStep(index) /\ recorded' # << >>) =>
              LET f == FollowUps(recorded')
              IN  \A k \in 1 .. Len(f) :
                      /\ index + k \in Slots
                      /\ SlotBound(binder', index + k)
                      /\ f[k] = binder'.entries[index + k].provided.group_id]_vars

\* a bind at slot 0 took the group of slot 1 along and stopped before slot 2,
\* which expects nothing
C11_Witness ==
    /\ last.op = "set_bind_group" /\ last.index = 0 /\ passError = NoError
    /\ Len(recorded) = 1
    /\ FollowUps(recorded) = << binder.entries[1].provided.group_id >>
    /\ binder.entries[2].expected_layout_id = "none"
    /\ compatible_count(binder) = MAX_BIND_GROUPS

\* the pipeline bound on the pass (each pipeline has a layout of its own)
BoundPipeline ==
    CHOOSE q \in Pipelines : pipeline_guard[q].layout_id = binder.pipeline_layout_id

\* C12: a draw that the binder lets through fails with MissingBlendColor
\* exactly when the pipeline bound on the pass uses the blend color and
\* set_blend_color has not been called in the pass, and with
\* MissingStencilReference exactly when that pipeline uses the stencil
\* reference and set_stencil_reference has not been called.
C12_MissingStateExactly ==
    (last.op = "draw" /\ binder.pipeline_layout_id # "none"
                      /\ invalid_mask(binder) = 0) =>
        /\ passError.err = "MissingBlendColor" <=>
              /\ "BLEND_COLOR" \in pipeline_guard[BoundPipeline].flags
              /\ blend_color_status # "Set"
        /\ passError.err = "MissingStencilReference" <=>
              /\ "STENCIL_REFERENCE" \in pipeline_guard[BoundPipeline].flags
              /\ stencil_reference_status # "Set"

\* this step is a call of set_bind_group, on a render or a compute pass
SetBindGroupCall ==
    nops' = nops + 1 /\ last'.op = "set_bind_group"

\* the call's offsets are not as many as the dynamic count of its bind group
CountDiffers(call) ==
    bind_group_guard[call.group].dynamic_count # Len(call.offsets)

\* one of the offsets is not a multiple of 256
OffBoundary(offsets) == \E i \in 1 .. Len(offsets) : offsets[i] % 256 # 0

\* no backend descriptor-set bind among the commands
NoBind(cmds) ==
    \A i \in 1 .. Len(cmds) :
        cmds[i].cmd \notin {"bind_graphics_descriptor_sets",
                            "bind_compute_descriptor_sets"}

C14_FailedBindKeepsState ==
    [][(SetBindGroupCall /\ passError' # NoError) =>
          /\ pass_trackers' = pass_trackers
          /\ binder' = binder]_vars

\* the threads that are inside queue_submit
Submitting ==
    { t \in Threads :
        pc[t] \in {"submit_gap", "submit_push", "submit_after", "submit_fire"} }

\* the submission indices assigned so far: those the calls in progress hold,
\* those of the active submissions and those retired
Assigned ==
    { targ[t].idx : t \in Submitting }
    \cup { active[i].index : i \in 1 .. Len(active) }
    \cup retired

\* thread t is assigned a submission index in this step
TakesIndex(t) == pc[t] = "idle" /\ pc'[t] = "submit_gap"

\* C18: the index a queue_submit is assigned is not 0 and is greater than
\* every index assigned before, also to a submit that is still running on
\* another thread; no two submits share an index.
C18_IndicesIncrease ==
    [][\A t \in Threads :
          TakesIndex(t) =>
              /\ targ'[t].idx > 0
              /\ \A s \in Assigned : targ'[t].idx > s]_vars

\* two submits run at the same time on two threads, with different indices
C18_Witness ==
    /\ Submitting = Threads
    /\ \A t \in Threads : targ[t].idx > 0
    /\ \E t \in Threads, u \in Threads : targ[t].idx < targ[u].idx

\* the greatest index among the submissions that used resource r, 0 if none
LastSubmitUsing(r) ==
    IF \E s \in SubIndices : r \in subUsed[s]
    THEN CHOOSE s \in SubIndices :
            /\ r \in subUsed[s]
            /\ \A s2 \in SubIndices : r \in subUsed[s2] => s2 <= s
    ELSE 0

\* C19: the submission index stored on a resource never decreases, and it is
\* the index of the latest submission whose command buffers used the
\* resource, 0 if there was none.
C19_StampIsLatestUse ==
    /\ [](\A r \in Res : submission_index[r] = LastSubmitUsing(r))
    /\ [][\A r \in Res : submission_index'[r] >= submission_index[r]]_vars

\* a resource was used by two submissions and carries the index of the second
C19_Witness ==
    \E r \in Res :
        /\ Cardinality({ s \in SubIndices : r \in subUsed[s] }) = 2
        /\ submission_index[r] = 3

\* ------------------------------- render pass begin and the framebuffer cache

FrameLive == fr_panic = "none" /\ fr_nops < MaxFrameOps

FrameCall(op, colors) == [op |-> op, colors |-> colors, evicted |-> {}]

\* some color attachment has another sample count than the first one
SampleCountsDiffer(colors) ==
    \E i \in 1 .. Len(colors) : samples[colors[i]] # samples[colors[1]]

\* FramebufferKey of a pass without resolve targets and depth-stencil
fb_key(colors) == colors

\* FramebufferKey::all
KeyViews(key) == Range(key)

\* command_encoder_begin_render_pass; `split` are the views whose texture has
\* sub-resources in differing states (trackers.textures.query gives None);
\* the adapter supports the sample counts 1 and 4
command_encoder_begin_render_pass(colors, split) ==
    /\ FrameLive
    /\ UNCHANGED << lifeVars, passVars, lockVars, unitVars, vertVars, compVars >>
    /\ encoder.state = "recording"
    /\ Range(colors) \subseteq view_guard
    /\ fr_nops' = fr_nops + 1
    /\ fr_last' = FrameCall("begin_render_pass", colors)
    /\ IF SampleCountsDiffer(colors)
       THEN /\ encoder' = [encoder EXCEPT !.raw = @ + 1]
            /\ fr_panic' = "sample_count"
            /\ UNCHANGED << framebuffers, pass_raw >>
       ELSE /\ encoder' =
                 [encoder EXCEPT
                    !.raw = @ + 1,
                    !.views = @ \cup Range(colors),
                    !.barriers = IF Range(colors) \cap split # {} THEN @ + 1 ELSE @,
                    !.state = "pass"]
            /\ framebuffers' = framebuffers \cup {fb_key(colors)}
            /\ pass_raw' =
                 List("c1",
                      (IF Range(colors) \cap split # {}
                       THEN << PassCmd("pipeline_barrier", encoder.raw + 1) >>
                       ELSE << >>)
                      \o << PassCmd("begin_render_pass", encoder.raw + 1) >>)
            /\ UNCHANGED fr_panic
    /\ UNCHANGED << view_guard, view_index, fr_referenced, fr_active, fr_free,
                    fr_index, cmb_raw, backend, fr_submitted >>

\* CommandBuffer::insert_barriers on cmb.raw.last_mut(): pipeline_barrier is
\* recorded in the last list of raw
insert_barriers_First(raw, barrier) ==
    [raw EXCEPT ![1].cmds = Append(@, barrier)]

insert_barriers(raw, barrier) ==
    [raw EXCEPT ![Len(raw)].cmds = Append(@, barrier)]

\* render_pass_end_pass: the pass is unregistered and ended, the barriers of
\* the stitch go to the last list of the encoder if it has one, and the list
\* of the pass is pushed
render_pass_end_pass ==
    /\ FrameLive
    /\ UNCHANGED << lifeVars, passVars, lockVars, unitVars, vertVars, compVars >>
    /\ encoder.state = "pass"
    /\ encoder' = [encoder EXCEPT !.state = "recording"]
    /\ LET n == pass_raw.cmds[Len(pass_raw.cmds)].of
           ended == [pass_raw EXCEPT
                       !.cmds = Append(@, PassCmd("end_render_pass", n))]
           stitched == IF cmb_raw["c1"] # << >>
                       THEN insert_barriers(cmb_raw["c1"],
                                            PassCmd("stitch_barrier", n))
                       ELSE cmb_raw["c1"]
       IN  cmb_raw' = [cmb_raw EXCEPT !["c1"] = Append(stitched, ended)]
    /\ pass_raw' = NoList
    /\ fr_nops' = fr_nops + 1
    /\ fr_last' = FrameCall("end_pass", << >>)
    /\ UNCHANGED << view_guard, view_index, framebuffers, fr_referenced,
                    fr_active, fr_free, fr_index, fr_panic, backend,
                    fr_submitted >>

\* texture_view_destroy: the view is put on pending.referenced
texture_view_destroy(v) ==
    /\ FrameLive
    /\ UNCHANGED << lifeVars, passVars, lockVars, unitVars, vertVars, compVars >>
    /\ v \in view_guard
    /\ v \notin fr_referenced
    /\ fr_referenced' = fr_referenced \cup {v}
    /\ fr_nops' = fr_nops + 1
    /\ fr_last' = FrameCall("texture_view_destroy", << v >>)
    /\ UNCHANGED << view_guard, view_index, encoder, framebuffers, fr_active,
                    fr_free, fr_index, fr_panic, cmb_raw, pass_raw, backend,
                    fr_submitted >>

\* strong count of the view's RefCount: the view itself, the device tracker,
\* pending.referenced and the trackers of the encoder
ViewRefs(v) ==
      (IF v \in view_guard THEN 1 ELSE 0)
    + 1
    + (IF v \in fr_referenced THEN 1 ELSE 0)
    + (IF v \in encoder.views THEN 1 ELSE 0)

ImageView(v) == [kind |-> "ImageView", id |-> v]
Framebuffer(key) == [kind |-> "Framebuffer", id |-> key]

FrameState ==
    [guard |-> view_guard, referenced |-> fr_referenced, active |-> fr_active,
     free |-> fr_free, framebuffers |-> framebuffers, evicted |-> {}]

\* triage_referenced on the views: a view with at most 3 references is
\* unregistered and goes to the submission that used it last, else to `free`
triage_views(st) ==
    LET torn == { v \in st.referenced : ViewRefs(v) <= 3 }
        at(v) == FindActive(st.active, view_index[v])
    IN  [st EXCEPT
           !.referenced = @ \ torn,
           !.guard = @ \ torn,
           !.active = [i \in 1 .. Len(st.active) |->
                         [st.active[i] EXCEPT
                            !.resources = @ \cup { v \in torn : at(v) = i }]],
           !.free = @ \cup { ImageView(v) : v \in { w \in torn : at(w) = 0 } }]

\* indices of the submissions of `act` whose resources hold a view of the key
Holders(key, act) ==
    { act[i].index :
        i \in { j \in 1 .. Len(act) : act[j].resources \cap KeyViews(key) # {} } }

\* the filter of triage_framebuffers: `return None` at an attachment that is
\* still registered
InRemoveList(key, guard) == \A v \in KeyViews(key) : v \notin guard

\* last_submit of triage_framebuffers for one key
last_submit(key, act) ==
    LET using == { i \in 1 .. Len(act) : act[i].resources \cap KeyViews(key) # {} }
    IN  IF using = {} THEN 0
        ELSE LET top == CHOOSE i \in using :
                           \A j \in using : act[j].index <= act[i].index
             IN  act[top].index

triage_framebuffers(st) ==
    LET remove_list == { key \in st.framebuffers : InRemoveList(key, st.guard) }
        at(key) == FindActive(st.active, last_submit(key, st.active))
    IN  [st EXCEPT
           !.framebuffers = @ \ remove_list,
           !.active = [i \in 1 .. Len(st.active) |->
                         [st.active[i] EXCEPT
                            !.framebuffers = @ \cup { k \in remove_list : at(k) = i }]],
           !.free = @ \cup { Framebuffer(k) : k \in { q \in remove_list : at(q) = 0 } },
           !.evicted = { [key |-> k, to |-> last_submit(k, st.active),
                          holders |-> Holders(k, st.active)] :
                           k \in remove_list }]

\* cleanup, done_count being the leading submissions whose fence is signaled
frame_cleanup(st, done_count) ==
    IF done_count = 0 THEN st
    ELSE [st EXCEPT !.active = SubSeq(@, done_count + 1, Len(@)),
                    !.free = {}]

\* Device::maintain on the views and the framebuffer cache
frame_maintain(done_count) ==
    frame_cleanup(triage_framebuffers(triage_views(FrameState)), done_count)

\* device_poll: maintain
device_poll ==
    /\ FrameLive
    /\ UNCHANGED << lifeVars, passVars, lockVars, unitVars, vertVars, compVars >>
    /\ \E done_count \in 0 .. Len(fr_active) :
         LET st == frame_maintain(done_count)
         IN  /\ view_guard' = st.guard
             /\ fr_referenced' = st.referenced
             /\ fr_active' = st.active
             /\ fr_free' = st.free
             /\ framebuffers' = st.framebuffers
             /\ fr_last' = [FrameCall("device_poll", << >>) EXCEPT
                              !.evicted = st.evicted]
    /\ fr_nops' = fr_nops + 1
    /\ UNCHANGED << view_index, encoder, fr_index, fr_panic, cmb_raw, pass_raw,
                    backend, fr_submitted >>

\* the argument lists of queue_submit: command buffers, none twice
IdLists ==
    { << c >> : c \in FrameCmbs }
    \cup { s \in FrameCmbs \X FrameCmbs : s[1] # s[2] }

\* the list that takes the barriers of the stitch against the device tracker
transit(c) == List(c, << PassCmd("pipeline_barrier", 0) >>)

\* comb.raw.insert(0, transit)
insert_transit_Last(raw, list) == Append(raw, list)

insert_transit(raw, list) == << list >> \o raw

\* command_buffer_ids.iter().flat_map(|&cmb_id| &command_buffer_guard[cmb_id].raw)
RECURSIVE flat_map(_, _)
flat_map(ids, guard) ==
    IF ids = << >> THEN << >>
    ELSE guard[Head(ids)] \o flat_map(Tail(ids), guard)

\* queue_submit of command_buffer_ids: the views the command buffers used are
\* stamped, each command buffer gets its transit list, maintain runs, the
\* lists go to the queue, the submission becomes active and the command
\* buffers are returned to the allocator
queue_submit(command_buffer_ids) ==
    /\ FrameLive
    /\ UNCHANGED << lifeVars, passVars, lockVars, unitVars, vertVars, compVars >>
    /\ Range(command_buffer_ids) \cap fr_submitted = {}
    /\ "c1" \in Range(command_buffer_ids) => encoder.state = "recording"
    /\ LET submit_index == 1 + fr_index
       IN  /\ fr_index' = fetch_add(fr_index)
           /\ view_index' =
                [v \in Views |-> IF /\ "c1" \in Range(command_buffer_ids)
                                    /\ v \in encoder.views
                                 THEN store(view_index[v], submit_index)
                                 ELSE view_index[v]]
           /\ \E done_count \in 0 .. Len(fr_active) :
                LET st == frame_maintain(done_count)
                IN  /\ view_guard' = st.guard
                    /\ fr_referenced' = st.referenced
                    /\ fr_active' =
                         Append(st.active,
                                [index |-> submit_index, resources |-> {},
                                 framebuffers |-> {}])
                    /\ fr_free' = st.free
                    /\ framebuffers' = st.framebuffers
                    /\ fr_last' =
                         [FrameCall("queue_submit", command_buffer_ids) EXCEPT
                            !.evicted = st.evicted]
    /\ cmb_raw' =
         [c \in FrameCmbs |->
            IF c \in Range(command_buffer_ids)
            THEN insert_transit(cmb_raw[c], transit(c))
            ELSE cmb_raw[c]]
    /\ backend' = flat_map(command_buffer_ids, cmb_raw')
    /\ fr_submitted' = fr_submitted \cup Range(command_buffer_ids)
    /\ encoder' = IF "c1" \in Range(command_buffer_ids)
                  THEN [encoder EXCEPT !.state = "submitted", !.views = {}]
                  ELSE encoder
    /\ fr_nops' = fr_nops + 1
    /\ UNCHANGED << fr_panic, pass_raw >>

NextFrame ==
    \/ \E colors \in ColorLists, split \in SUBSET Views :
          command_encoder_begin_render_pass(colors, split)
    \/ render_pass_end_pass
    \/ \E v \in Views : texture_view_destroy(v)
    \/ device_poll
    \/ \E command_buffer_ids \in IdLists : queue_submit(command_buffer_ids)

InitFrame == LifeStart /\ PassClosed /\ FrameStart /\ LockStart /\ UnitStart /\ CompStart
            /\ VertStart

SpecFrame == InitFrame /\ [][NextFrame]_vars

\* ------------------------------------------------- render pass: properties

\* the step is a call of command_encoder_begin_render_pass
BeginCall == fr_nops' = fr_nops + 1 /\ fr_last'.op = "begin_render_pass"

\* C15: command_encoder_begin_render_pass with color attachments of different
\* sample counts fails, and at the failure no command list has been begun, no
\* barrier recorded and the trackers of the encoder are as before the call.
C15_FailsBeforeAnyCommand ==
    [][(BeginCall /\ SampleCountsDiffer(fr_last'.colors)) =>
          /\ fr_panic' = "sample_count"
          /\ encoder'.raw = encoder.raw
          /\ encoder'.barriers = encoder.barriers
          /\ encoder'.views = encoder.views]_vars

\* the last operation ran Device::maintain
AfterMaintain == fr_last.op \in {"device_poll", "queue_submit"}

\* C20: after a maintain no cached framebuffer key has an attachment view
\* that is unregistered, and a framebuffer evicted by it went to the active
\* submission with the greatest index among those that hold one of its
\* views, or to `free` when no active submission holds one.
C20_NoStaleFramebuffer ==
    AfterMaintain =>
        /\ \A key \in framebuffers : KeyViews(key) \subseteq view_guard
        /\ \A e \in fr_last.evicted :
              IF e.holders = {} THEN e.to = 0
              ELSE e.to \in e.holders /\ \A s \in e.holders : s <= e.to

\* ------------------------------------------------------------------ locking
\* An operation is the sequence of its lock acquisitions and releases; a
\* guard is released where its scope ends.  The allocator mutexes of cleanup
\* are only taken under `pending` and are left out.

\* hub stores (RwLock) and per-device mutexes
StoreLocks ==
    {"adapters", "devices", "swap_chains", "pipeline_layouts", "bind_groups",
     "command_buffers", "render_passes", "compute_passes", "buffers",
     "textures", "texture_views"}
DeviceMutexes == {"pending", "trackers", "framebuffers", "render_pass_cache"}

\* steps: acquire lock l in mode m when condition c holds; release l; set a
\* flag of PendingResources when condition c holds
Acq(l, m, c) == [k |-> "acq", l |-> l, m |-> m, c |-> c]
R(l) == Acq(l, "r", "always")
W(l) == Acq(l, "w", "always")
M(l) == Acq(l, "w", "always")
U(l) == [k |-> "rel", l |-> l, m |-> "-", c |-> "always"]
Set(f, v, c) == [k |-> "set", l |-> f, m |-> v, c |-> c]

\* maintain_locks with the two device mutexes taken the other way round
maintain_locks_TrackersFirst ==
    << M("trackers"), M("pending"),
       Acq("bind_groups", "w", "referenced"), Acq("buffers", "w", "referenced"),
       Acq("textures", "w", "referenced"), Acq("texture_views", "w", "referenced"),
       Set("referenced", "false", "referenced"),
       U("texture_views"), U("textures"), U("buffers"), U("bind_groups"),
       Acq("buffers", "r", "mapped"),
       Set("ready", "true", "mapped"), Set("mapped", "false", "mapped"),
       U("buffers"),
       M("framebuffers"), R("texture_views"), U("texture_views"), U("framebuffers"),
       Acq("buffers", "w", "ready"), Set("ready", "false", "ready"), U("buffers"),
       U("pending"), U("trackers") >>

\* Device::maintain: triage_referenced takes the write locks when an entry of
\* `referenced` has fewer than MIN_REFS references, triage_mapped reads the
\* buffers when `mapped` is not empty, handle_mapping writes them when
\* `ready_to_map` is not empty
maintain_locks ==
    << M("pending"), M("trackers"),
       Acq("bind_groups", "w", "referenced"), Acq("buffers", "w", "referenced"),
       Acq("textures", "w", "referenced"), Acq("texture_views", "w", "referenced"),
       Set("referenced", "false", "referenced"),
       U("texture_views"), U("textures"), U("buffers"), U("bind_groups"),
       Acq("buffers", "r", "mapped"),
       Set("ready", "true", "mapped"), Set("mapped", "false", "mapped"),
       U("buffers"),
       M("framebuffers"), R("texture_views"), U("texture_views"), U("framebuffers"),
       Acq("buffers", "w", "ready"), Set("ready", "false", "ready"), U("buffers"),
       U("trackers"), U("pending") >>

device_poll_locks == << R("devices") >> \o maintain_locks \o << U("devices") >>

queue_submit_locks ==
    << W("devices"), R("swap_chains"), M("trackers"),
       W("command_buffers"), R("bind_groups"), R("buffers"), R("textures"),
       R("texture_views"),
       U("texture_views"), U("textures"), U("buffers"), U("bind_groups"),
       U("command_buffers"),
       R("command_buffers"), U("command_buffers"),
       U("trackers"), U("swap_chains"), U("devices"),
       R("devices") >>
    \o maintain_locks
    \o << M("pending"), U("pending"),
          W("command_buffers"), U("command_buffers"), U("devices") >>

buffer_map_async_locks ==
    << R("devices"), W("buffers"), U("buffers"),
       M("trackers"), U("trackers"),
       M("pending"), Set("mapped", "true", "always"), U("pending"),
       U("devices") >>

\* pending.destroy(id, ref_count) under the read locks of the operation
Destroy(stores) ==
    [i \in 1 .. Len(stores) |-> R(stores[i])]
    \o << M("pending"), Set("referenced", "true", "always"), U("pending") >>
    \o [i \in 1 .. Len(stores) |-> U(stores[Len(stores) + 1 - i])]

buffer_destroy_locks == Destroy(<< "devices", "buffers" >>)
texture_destroy_locks == Destroy(<< "devices", "textures" >>)
texture_view_destroy_locks == Destroy(<< "devices", "textures", "texture_views" >>)
bind_group_destroy_locks == Destroy(<< "devices", "bind_groups" >>)

begin_render_pass_locks ==
    << R("adapters"), R("devices"), W("command_buffers"),
       R("buffers"), U("buffers"), R("textures"), R("texture_views"),
       M("render_pass_cache"), M("framebuffers"),
       U("framebuffers"), U("render_pass_cache"),
       U("texture_views"), U("textures"),
       W("render_passes"), U("render_passes"),
       U("command_buffers"), U("devices"), U("adapters") >>

render_pass_end_pass_locks ==
    << W("command_buffers"), W("render_passes"), U("render_passes"),
       R("buffers"), R("textures"), U("textures"), U("buffers"),
       U("command_buffers") >>

compute_pass_set_bind_group_locks ==
    << R("pipeline_layouts"), R("bind_groups"), W("compute_passes"),
       R("buffers"), R("textures"), U("textures"), U("buffers"),
       U("compute_passes"), U("bind_groups"), U("pipeline_layouts") >>

compute_pass_dispatch_indirect_locks ==
    << R("buffers"), W("compute_passes"), U("compute_passes"), U("buffers") >>

LockOps ==
    {"device_poll", "queue_submit", "buffer_map_async", "buffer_destroy",
     "texture_destroy", "texture_view_destroy", "bind_group_destroy",
     "begin_render_pass", "render_pass_end_pass", "compute_pass_set_bind_group",
     "compute_pass_dispatch_indirect"}

Program(op) ==
    CASE op = "device_poll" -> device_poll_locks
      [] op = "queue_submit" -> queue_submit_locks
      [] op = "buffer_map_async" -> buffer_map_async_locks
      [] op = "buffer_destroy" -> buffer_destroy_locks
      [] op = "texture_destroy" -> texture_destroy_locks
      [] op = "texture_view_destroy" -> texture_view_destroy_locks
      [] op = "bind_group_destroy" -> bind_group_destroy_locks
      [] op = "begin_render_pass" -> begin_render_pass_locks
      [] op = "render_pass_end_pass" -> render_pass_end_pass_locks
      [] op = "compute_pass_set_bind_group" -> compute_pass_set_bind_group_locks
      [] op = "compute_pass_dispatch_indirect" -> compute_pass_dispatch_indirect_locks
      [] OTHER -> << >>

\* the step thread t is at
Running(t) == lk_pc[t].op # "idle"
StepOf(t) == Program(lk_pc[t].op)[lk_pc[t].pos]

\* the condition of a step, read under the `pending` mutex
Cond(c) ==
    CASE c = "referenced" -> lk_flags.referenced
      [] c = "mapped" -> lk_flags.mapped
      [] c = "ready" -> lk_flags.ready
      [] OTHER -> TRUE

\* RwLock / Mutex: a reader waits for a writer, a writer for every holder
Available(t, l, m) ==
    \A u \in Threads \ {t} :
        /\ << l, "w" >> \notin lk_held[u]
        /\ m = "w" => << l, "r" >> \notin lk_held[u]

\* thread t has done its step
Advance(t) ==
    lk_pc' = [lk_pc EXCEPT ![t] =
                IF lk_pc[t].pos = Len(Program(lk_pc[t].op))
                THEN [op |-> "idle", pos |-> 0]
                ELSE [lk_pc[t] EXCEPT !.pos = @ + 1]]

\* a thread enters an operation
OpStart(t, op) ==
    /\ UNCHANGED << lifeVars, passVars, frameVars, unitVars, vertVars, compVars >>
    /\ ~Running(t)
    /\ lk_pc' = [lk_pc EXCEPT ![t] = [op |-> op, pos |-> 1]]
    /\ UNCHANGED << lk_held, lk_flags >>

\* store.read() / store.write() / mutex.lock()
LockAcquire(t) ==
    /\ UNCHANGED << lifeVars, passVars, frameVars, unitVars, vertVars, compVars >>
    /\ Running(t)
    /\ StepOf(t).k = "acq" /\ Cond(StepOf(t).c)
    /\ Available(t, StepOf(t).l, StepOf(t).m)
    /\ lk_held' = [lk_held EXCEPT ![t] = @ \cup {<< StepOf(t).l, StepOf(t).m >>}]
    /\ Advance(t)
    /\ UNCHANGED lk_flags

\* the guard goes out of scope
LockRelease(t) ==
    /\ UNCHANGED << lifeVars, passVars, frameVars, unitVars, vertVars, compVars >>
    /\ Running(t)
    /\ StepOf(t).k = "rel"
    /\ lk_held' = [lk_held EXCEPT ![t] = { h \in @ : h[1] # StepOf(t).l }]
    /\ Advance(t)
    /\ UNCHANGED lk_flags

\* the lists of PendingResources change under its mutex
FlagSet(t) ==
    /\ UNCHANGED << lifeVars, passVars, frameVars, unitVars, vertVars, compVars >>
    /\ Running(t)
    /\ StepOf(t).k = "set" /\ Cond(StepOf(t).c)
    /\ lk_flags' =
         [f \in DOMAIN lk_flags |->
            IF f = StepOf(t).l THEN StepOf(t).m = "true" ELSE lk_flags[f]]
    /\ Advance(t)
    /\ UNCHANGED lk_held

\* the early return of a triage step whose list is empty
StepSkip(t) ==
    /\ UNCHANGED << lifeVars, passVars, frameVars, unitVars, vertVars, compVars >>
    /\ Running(t)
    /\ StepOf(t).k \in {"acq", "set"} /\ ~Cond(StepOf(t).c)
    /\ Advance(t)
    /\ UNCHANGED << lk_held, lk_flags >>

NextLock ==
    \/ \E t \in Threads, op \in LockOps : OpStart(t, op)
    \/ \E t \in Threads : LockAcquire(t)
    \/ \E t \in Threads : LockRelease(t)
    \/ \E t \in Threads : FlagSet(t)
    \/ \E t \in Threads : StepSkip(t)

InitLock == LifeStart /\ PassClosed /\ FrameStart /\ LockStart /\ UnitStart /\ CompStart
            /\ VertStart

SpecLock == InitLock /\ [][NextLock]_vars

\* ---------------------------------------------------- locking: properties

\* thread t waits for a lock
Waits(t) ==
    /\ Running(t)
    /\ StepOf(t).k = "acq" /\ Cond(StepOf(t).c)
    /\ ~Available(t, StepOf(t).l, StepOf(t).m)

\* thread u holds the lock thread t waits for
HoldsWanted(u, t) == \E h \in lk_held[u] : h[1] = StepOf(t).l

\* the operations the deadlock claim is about
DeadlockOps ==
    {"buffer_destroy", "texture_destroy", "texture_view_destroy",
     "bind_group_destroy", "buffer_map_async", "queue_submit", "device_poll",
     "begin_render_pass"}

\* C16: there is no set of threads, running the listed public operations,
\* in which every thread waits for a store lock or a device mutex that
\* another thread of the set holds.
C16_NoDeadlock ==
    ~ \E S \in (SUBSET Threads) \ {{}} :
          \A t \in S :
              /\ lk_pc[t].op \in DeadlockOps
              /\ Waits(t)
              /\ \E u \in S \ {t} : HoldsWanted(u, t)

\* rank of each store in the order the locks are to be taken in
Rank ==
    [l \in StoreLocks |->
        CASE l = "adapters" -> 1
          [] l = "devices" -> 2
          [] l = "swap_chains" -> 3
          [] l = "pipeline_layouts" -> 4
          [] l = "bind_groups" -> 6
          [] l = "command_buffers" -> 7
          [] l \in {"render_passes", "compute_passes"} -> 8
          [] l = "buffers" -> 9
          [] l = "textures" -> 10
          [] l = "texture_views" -> 11]

\* C17: a thread that takes the lock of a store holds no lock of a store
\* that comes later in the order, or at the same place.
C17_LocksInRankOrder ==
    [][\A t \in Threads :
          \A new \in lk_held'[t] \ lk_held[t] :
              new[1] \in StoreLocks =>
                  \A h \in lk_held[t] :
                      h[1] \in StoreLocks => Rank[h[1]] < Rank[new[1]]]_vars

\* ------------------------------------------- lifecycle: further properties

\* C21: when maintain has returned `free` is empty: what triage and the
\* retired submissions put there was destroyed in the same maintain, also
\* when no submission retired (only maintain changes `free`, so the list
\* holds between two calls what the last one left).
C21_FreeDrained == panic = "none" => free = << >>

\* ------------------------------------------------- buffer tracker, samplers

\* READ_ALL that holds STORAGE as well
READ_ALL_WithStorage ==
    {"MAP_READ", "COPY_SRC", "INDEX", "VERTEX", "UNIFORM", "STORAGE",
     "STORAGE_READ", "INDIRECT"}

\* READ_ALL that misses INDEX
READ_ALL_NoIndex ==
    {"MAP_READ", "COPY_SRC", "VERTEX", "UNIFORM", "STORAGE_READ", "INDIRECT"}

\* BufferUsage::READ_ALL
READ_ALL ==
    {"MAP_READ", "COPY_SRC", "INDEX", "VERTEX", "UNIFORM", "STORAGE_READ",
     "INDIRECT"}

\* the usages the operations of a pass ask for
UsageInputs == SUBSET {"INDEX", "VERTEX", "STORAGE", "COPY_DST"}

\* the tracker's rule for use_extend: the first use sets the usage, the same
\* usage again changes nothing, another one is added when the union lies
\* within READ_ALL and is a conflict otherwise
Compatible(current, required) ==
    \/ current = Untracked
    \/ current = required
    \/ (current \cup required) \subseteq READ_ALL

Extended(current, required) ==
    IF current = Untracked THEN required ELSE current \cup required

\* trackers.buffers.use_extend(&*buffer_guard, id, (), required)
use_extend(required) ==
    /\ UNCHANGED << lifeVars, passVars, frameVars, lockVars, vertVars, compVars >>
    /\ IF Compatible(tk_usage, required)
       THEN /\ tk_usage' = Extended(tk_usage, required)
            /\ tk_last' = [old |-> tk_usage, required |-> required, result |-> "Ok"]
       ELSE /\ tk_last' = [old |-> tk_usage, required |-> required,
                           result |-> "Conflict"]
            /\ UNCHANGED tk_usage
    /\ UNCHANGED sampler_guard

\* a new pass: TrackerSet::new()
TrackerSet_new ==
    /\ UNCHANGED << lifeVars, passVars, frameVars, lockVars, vertVars, compVars >>
    /\ tk_usage # Untracked
    /\ tk_usage' = Untracked
    /\ tk_last' = [old |-> Untracked, required |-> {}, result |-> "none"]
    /\ UNCHANGED sampler_guard

CompareFunction ==
    {"Never", "Less", "Equal", "LessEqual", "Greater", "NotEqual",
     "GreaterEqual", "Always"}

\* SamplerInfo::comparison of device_create_sampler
comparison(compare_function) ==
    IF compare_function = "Always" THEN "None" ELSE compare_function

device_create_sampler(compare_function) ==
    /\ UNCHANGED << lifeVars, passVars, frameVars, lockVars, vertVars, compVars >>
    /\ sampler_guard' = sampler_guard \cup
         {[compare_function |-> compare_function,
           comparison |-> comparison(compare_function)]}
    /\ sampler_guard' # sampler_guard
    /\ UNCHANGED << tk_usage, tk_last >>

NextUnit ==
    \/ \E required \in UsageInputs : use_extend(required)
    \/ TrackerSet_new
    \/ \E f \in CompareFunction : device_create_sampler(f)

InitUnit == LifeStart /\ PassClosed /\ FrameStart /\ LockStart /\ UnitStart /\ CompStart
            /\ VertStart

SpecUnit == InitUnit /\ [][NextUnit]_vars

\* ------------------------------------- buffer tracker, samplers: properties

\* the read-only usages
ReadOnly ==
    {"MAP_READ", "COPY_SRC", "INDEX", "VERTEX", "UNIFORM", "STORAGE_READ",
     "INDIRECT"}

\* the write and read-write usages
Writing == {"MAP_WRITE", "COPY_DST", "STORAGE"}

\* the step is a use_extend
UseExtendCall == tk_last' # tk_last /\ tk_last'.result # "none"

\* C22: use_extend with a read-only usage, on a buffer the scope does not
\* hold or holds with a read-only usage, succeeds and leaves the union of
\* the two usages; the same read-only usage a second time changes nothing.
C22_ReadsUnite ==
    [][(/\ UseExtendCall
        /\ tk_last'.required \subseteq ReadOnly
        /\ (tk_usage = Untracked \/ tk_usage \subseteq ReadOnly)) =>
          /\ tk_last'.result = "Ok"
          /\ tk_usage' = IF tk_usage = Untracked THEN tk_last'.required
                         ELSE tk_usage \cup tk_last'.required
          /\ tk_last'.required = tk_usage => tk_usage' = tk_usage]_vars

\* two read-only usages have been united by the second use_extend
C22_Witness ==
    /\ tk_last.result = "Ok"
    /\ tk_last.old = {"INDEX"} /\ tk_last.required = {"VERTEX"}
    /\ tk_usage = {"INDEX", "VERTEX"}

\* C23 as stated: after use_extend with a usage W within WRITE_ALL, use_extend
\* with a non-empty usage other than W is a conflict.
C23_WriteExcludes ==
    [][(/\ UseExtendCall
        /\ tk_usage # Untracked /\ tk_usage \subseteq Writing
        /\ tk_last'.required # {} /\ tk_last'.required # tk_usage) =>
          tk_last'.result = "Conflict"]_vars

\* C23 amended: the same for a non-empty W.
C23_NonEmptyWriteExcludes ==
    [][(/\ UseExtendCall
        /\ tk_usage # Untracked /\ tk_usage # {} /\ tk_usage \subseteq Writing
        /\ tk_last'.required # {} /\ tk_last'.required # tk_usage) =>
          /\ tk_last'.result = "Conflict"
          /\ tk_usage' = tk_usage]_vars

\* a buffer used as STORAGE was refused as INDEX in the same scope
C23_Witness ==
    /\ tk_last.result = "Conflict"
    /\ tk_last.old = {"STORAGE"} /\ tk_last.required = {"INDEX"}
    /\ tk_usage = {"STORAGE"}

\* C26: a sampler made with compare_function Always or Never has the
\* comparison disabled, one made with another function compares with it.
C26_TrivialCompareDisabled ==
    \A sm \in sampler_guard :
        sm.comparison = IF sm.compare_function \in {"Always", "Never"}
                        THEN "None" ELSE sm.compare_function

\* ------------------------------------------------ command lists: properties

\* the step is a call of queue_submit
SubmitCall == fr_nops' = fr_nops + 1 /\ fr_last'.op = "queue_submit"

\* the step is a call of render_pass_end_pass
EndCall == fr_nops' = fr_nops + 1 /\ fr_last'.op = "end_pass"

\* a list of command buffer c that holds the barriers against the device
\* tracker and nothing else
TransitionList(c) ==
    [owner |-> c, cmds |-> << [cmd |-> "pipeline_barrier", of |-> 0] >>]

\* the lists of the command buffers `ids`, each behind its transition list
RECURSIVE InArgumentOrder(_)
InArgumentOrder(ids) ==
    IF ids = << >> THEN << >>
    ELSE << TransitionList(Head(ids)) >> \o cmb_raw[Head(ids)]
         \o InArgumentOrder(Tail(ids))

\* C24: the queue receives the lists of one queue_submit by command buffer in
\* argument order, and for each command buffer first the transition list with
\* the barriers against the device tracker, then the lists recorded on it in
\* the order they were appended.
C24_ListsInArgumentOrder ==
    [][SubmitCall => backend' = InArgumentOrder(fr_last'.colors)]_vars

\* two command buffers were submitted together, the encoder with a pass last
C24_Witness ==
    /\ Len(backend) = 5
    /\ backend[1].owner = "c2"
    /\ backend[5].owner = "c1"
    /\ backend[5].cmds # << >>

\* the lists recorded on the encoder
Recorded == cmb_raw["c1"]

IsStitch(c) == c.cmd = "stitch_barrier"

\* every command of the list is a stitch barrier / none is
BarrierList(l) == \A k \in 1 .. Len(l.cmds) : IsStitch(l.cmds[k])

WorkList(l) == \A k \in 1 .. Len(l.cmds) : ~IsStitch(l.cmds[k])

\* at the end of a pass its list is the last list of the encoder and the
\* barriers of the stitch end the list before it
StitchedBeforePass ==
    LET lists == cmb_raw'["c1"]
        L == Len(lists)
        n == pass_raw.cmds[1].of
    IN  /\ L = Len(Recorded) + 1
        /\ lists[L].owner = "c1"
        /\ WorkList(lists[L])
        /\ \A k \in 1 .. Len(pass_raw.cmds) : lists[L].cmds[k] = pass_raw.cmds[k]
        /\ lists[L - 1].cmds =
             Append(Recorded[L - 1].cmds, [cmd |-> "stitch_barrier", of |-> n])
        /\ \A i \in 1 .. (L - 2) : lists[i] = Recorded[i]

\* C25 as stated: at render pass end the barriers of the stitch are recorded
\* in the list just before the list of the pass, the list of the pass becomes
\* the last list, and the lists of the encoder alternate barrier, work,
\* barrier, work.
C25_ListsAlternate ==
    /\ []("c1" \notin fr_submitted =>
             \A i \in 1 .. Len(Recorded) :
                IF i % 2 = 1 THEN BarrierList(Recorded[i])
                             ELSE WorkList(Recorded[i]))
    /\ [][EndCall => StitchedBeforePass]_vars

\* the commands of the encoder in list order
RECURSIVE Chain(_)
Chain(lists) ==
    IF lists = << >> THEN << >> ELSE Head(lists).cmds \o Chain(Tail(lists))

\* barrier, work, barrier, work: the chain starts with a stitch barrier, a
\* stitch barrier is followed by work of its pass, work follows work of its
\* pass or the stitch barrier of its pass, and the passes come in the order
\* they ended
Alternates(chain) ==
    /\ chain # << >> => IsStitch(chain[1])
    /\ \A k \in 1 .. Len(chain) :
         IF IsStitch(chain[k])
         THEN /\ k < Len(chain)
              /\ ~IsStitch(chain[k + 1])
              /\ chain[k + 1].of = chain[k].of
         ELSE /\ k > 1
              /\ chain[k - 1].of = chain[k].of
    /\ \A k \in 1 .. (Len(chain) - 1) : chain[k].of <= chain[k + 1].of

\* C25 as amended: at render pass end the barriers of the stitch are recorded
\* in the list just before the list of the pass, the list of the pass becomes
\* the last list, and the commands of the encoder, read in list order,
\* alternate barrier, work, barrier, work.
C25_CommandsAlternate ==
    /\ []("c1" \notin fr_submitted => Alternates(Chain(Recorded)))
    /\ [][EndCall => StitchedBeforePass]_vars

\* two passes were ended: the list of the first one holds the barriers of the
\* second one
C25_Witness ==
    /\ "c1" \notin fr_submitted
    /\ Len(Recorded) = 3
    /\ \E k \in 1 .. Len(Recorded[2].cmds) : IsStitch(Recorded[2].cmds[k])
    /\ encoder.state = "recording"

\* ------------------------------------- vertex state of a render pass (render.rs)

\* pipeline.vertex_strides of the render pipelines: (stride, step mode) by slot
VertexStrides ==
    { << >>,
      << << 2, "Vertex" >> >>,
      << << 1, "Vertex" >>, << 2, "Instance" >> >>,
      << << 0, "Vertex" >>, << 1, "Instance" >> >> }

\* a buffer of the given size bound at the given offset
Binding(size, offset) == [size |-> size, offset |-> offset]

\* the buffers and offsets given to set_vertex_buffers
BindingLists ==
    { << Binding(size, offset) >> : size \in {4, 6}, offset \in {0, 2, 5} }
    \cup { << Binding(4, 0), Binding(6, 0) >> }

\* the arguments of a draw: vertex_count, instance_count, first_vertex,
\* first_instance
DrawArgs == {1, 3} \X {1} \X {0, MaxU32} \X {0, MaxU32}

VertexLive == vb_last.result # "panic" /\ vb_nops < MaxVertexOps

VertexCall(op, args, result) == [op |-> op, args |-> args, result |-> result]

\* the least limit of the slots of one step mode, !0 if there is none
limit_of(inputs, rate) ==
    LET limits == { (inputs[i].total_size \div inputs[i].stride) % U32 :
                      i \in { j \in VertexSlots : /\ inputs[j].stride # 0
                                                  /\ inputs[j].rate = rate } }
    IN  IF limits = {} THEN MaxU32
        ELSE CHOOSE l \in limits : \A m \in limits : l <= m

\* VertexState::update_limits
update_limits(inputs) ==
    [vertex_limit |-> limit_of(inputs, "Vertex"),
     instance_limit |-> limit_of(inputs, "Instance")]

\* render_pass_set_pipeline, the vertex buffer limits: the slots take the
\* strides and step modes of the pipeline, the other slots are reset
render_pass_set_pipeline_strides(vertex_strides) ==
    /\ VertexLive
    /\ UNCHANGED << lifeVars, passVars, frameVars, lockVars, unitVars, compVars >>
    /\ vb_inputs' =
         [i \in VertexSlots |->
            IF i + 1 <= Len(vertex_strides)
            THEN [vb_inputs[i] EXCEPT !.stride = vertex_strides[i + 1][1],
                                      !.rate = vertex_strides[i + 1][2]]
            ELSE [vb_inputs[i] EXCEPT !.stride = 0, !.rate = "Vertex"]]
    /\ vb_limits' = update_limits(vb_inputs')
    /\ vb_last' = VertexCall("set_pipeline", vertex_strides, "Ok")
    /\ vb_nops' = vb_nops + 1
    /\ UNCHANGED overflow_checks

\* the slot that bindings[k] goes to
SlotOf(start_slot, k) == start_slot + k - 1

\* render_pass_set_vertex_buffers: the slots from start_slot on take
\* buffer.size - offset; the subtraction panics in a build with overflow
\* checks and wraps in a build without
render_pass_set_vertex_buffers(start_slot, bindings) ==
    /\ VertexLive
    /\ UNCHANGED << lifeVars, passVars, frameVars, lockVars, unitVars, compVars >>
    /\ LET zipped == { k \in 1 .. Len(bindings) :
                          SlotOf(start_slot, k) \in VertexSlots }
           underflow == \E k \in zipped : bindings[k].offset > bindings[k].size
       IN  IF overflow_checks /\ underflow
           THEN /\ vb_last' = VertexCall("set_vertex_buffers",
                                         << start_slot, bindings >>, "panic")
                /\ UNCHANGED << vb_inputs, vb_limits >>
           ELSE /\ vb_inputs' =
                     [i \in VertexSlots |->
                        IF \E k \in zipped : SlotOf(start_slot, k) = i
                        THEN LET b == bindings[i - start_slot + 1]
                             IN  [vb_inputs[i] EXCEPT
                                    !.total_size = (b.size - b.offset) % U64]
                        ELSE vb_inputs[i]]
                /\ vb_limits' = update_limits(vb_inputs')
                /\ vb_last' = VertexCall("set_vertex_buffers",
                                         << start_slot, bindings >>, "Ok")
    /\ vb_nops' = vb_nops + 1
    /\ UNCHANGED overflow_checks

\* render_pass_draw on a pass that is ready: the sums panic in a build with
\* overflow checks and wrap in a build without, then they are held against
\* the limits
render_pass_draw_ranges(vertex_count, instance_count, first_vertex, first_instance) ==
    /\ VertexLive
    /\ UNCHANGED << lifeVars, passVars, frameVars, lockVars, unitVars, compVars >>
    /\ LET overflow == \/ first_vertex + vertex_count > MaxU32
                       \/ first_instance + instance_count > MaxU32
           vertex_end == (first_vertex + vertex_count) % U32
           instance_end == (first_instance + instance_count) % U32
           args == << vertex_count, instance_count, first_vertex, first_instance >>
       IN  vb_last' =
             VertexCall("draw", args,
                        IF overflow_checks /\ overflow THEN "panic"
                        ELSE IF vertex_end > vb_limits.vertex_limit THEN "panic"
                        ELSE IF instance_end > vb_limits.instance_limit THEN "panic"
                        ELSE "draw")
    /\ vb_nops' = vb_nops + 1
    /\ UNCHANGED << overflow_checks, vb_inputs, vb_limits >>

NextVertex ==
    \/ \E vertex_strides \in VertexStrides :
          render_pass_set_pipeline_strides(vertex_strides)
    \/ \E start_slot \in 0 .. MaxVertexBuffers, bindings \in BindingLists :
          render_pass_set_vertex_buffers(start_slot, bindings)
    \/ \E a \in DrawArgs : render_pass_draw_ranges(a[1], a[2], a[3], a[4])

InitVertex ==
    /\ LifeStart /\ PassClosed /\ FrameStart /\ LockStart /\ UnitStart /\ CompStart
    /\ \E checks \in BOOLEAN : VertexState_new(checks)

SpecVertex == InitVertex /\ [][NextVertex]_vars

\* ------------------------------------------------ vertex state: properties

\* the step is a call that set the pipeline or the vertex buffers and returned
SetCall ==
    /\ vb_nops' = vb_nops + 1
    /\ vb_last'.op \in {"set_pipeline", "set_vertex_buffers"}
    /\ vb_last'.result = "Ok"

\* the step is a call of draw
DrawCall == vb_nops' = vb_nops + 1 /\ vb_last'.op = "draw"

\* the least floor(total_size / stride) over the slots of the step mode with
\* a stride, !0 if there is no such slot
LeastFloor(inputs, rate) ==
    LET floors == { inputs[i].total_size \div inputs[i].stride :
                      i \in { j \in VertexSlots : /\ inputs[j].stride # 0
                                                  /\ inputs[j].rate = rate } }
    IN  IF floors = {} THEN MaxU32
        ELSE CHOOSE l \in floors : \A m \in floors : l <= m

\* C27: after a set_pipeline or set_vertex_buffers call vertex_limit and
\* instance_limit are the least floor(total_size / stride) over the slots of
\* their step mode with a non-zero stride, and a draw whose first_vertex +
\* vertex_count exceeds vertex_limit or whose first_instance + instance_count
\* exceeds instance_limit is rejected.
C27_LimitsBoundDraws ==
    [][/\ SetCall =>
            /\ vb_limits'.vertex_limit = LeastFloor(vb_inputs', "Vertex")
            /\ vb_limits'.instance_limit = LeastFloor(vb_inputs', "Instance")
       /\ (/\ DrawCall
           /\ \/ vb_last'.args[3] + vb_last'.args[1] > vb_limits.vertex_limit
              \/ vb_last'.args[4] + vb_last'.args[2] > vb_limits.instance_limit)
          => vb_last'.result = "panic"]_vars

\* ------------------------------------------- passes: what the backend holds

\* C28: at every draw of a render pass that passes is_ready, each slot the
\* pipeline layout expects holds a group that was passed to a backend
\* bind_graphics_descriptor_sets since it was provided, so the backend holds
\* that group at the slot, whatever the order of set_pipeline and
\* set_bind_group was.
C28_DrawSeesProvidedGroups ==
    (passKind = "render" /\ last.op = "draw" /\ passError = NoError) =>
        \A i \in Slots :
            binder.entries[i].expected_layout_id # "none" =>
                descriptor_sets[i] = binder.entries[i].provided.group_id

\* the set_bind_group of this step turns the slot from blocking into
\* compatible, with no invalid slot below it
Unblocks(index) ==
    /\ SetBindGroupStep(index)
    /\ SlotInvalid(binder, index) /\ SlotBound(binder', index)
    /\ \A j \in 0 .. (index - 1) : ~SlotInvalid(binder', j)

\* C29: when set_bind_group (provide_entry) turns the slot at index from
\* blocking, with nothing provided or a group of another layout, into
\* compatible, the follow-ups are the provided groups of the slots index+1 up
\* to the end of the new compatible prefix, bound in the same call.
C29_UnblockRebindsSuccessors ==
    [][\A index \in Slots :
          Unblocks(index) =>
              /\ Len(recorded') = 1
              /\ recorded'[1].first = index
              /\ FollowUps(recorded') = PrefixGroups(binder', index)]_vars

\* the set_bind_group of this step gives the slot another group or other
\* offsets than it holds
ChangesSlot(index) ==
    /\ SetBindGroupStep(index)
    /\ \/ binder.entries[index].provided = NoPair
       \/ binder.entries[index].provided.group_id # last'.group
       \/ binder.entries[index].dynamic_offsets # last'.offsets

\* C30: a set_bind_group (provide_entry) that changes the slot at index binds
\* nothing when index is not below the compatible prefix computed with the
\* new group, that is when the slot or a slot below it is invalid; the new
\* group and offsets are recorded in the slot all the same.
C30_ParkedAboveInvalid ==
    [][\A index \in Slots :
          (/\ ChangesSlot(index)
           /\ \E j \in 0 .. index : SlotInvalid(binder', j)) =>
              /\ recorded' = << >>
              /\ binder'.entries[index].provided.group_id = last'.group
              /\ binder'.entries[index].dynamic_offsets = last'.offsets
              /\ \A j \in Slots \ {index} :
                    binder'.entries[j] = binder.entries[j]]_vars

\* a group of the expected layout was parked in slot 1 behind the invalid
\* slot 0
C30_Witness ==
    /\ last.op = "set_bind_group" /\ last.index = 1 /\ passError = NoError
    /\ last.before # binder.entries[1]
    /\ SlotInvalid(binder, 0) /\ SlotBound(binder, 1)
    /\ binder.entries[1].provided.group_id = last.group
    /\ recorded = << >>

\* --------------------------------------- passes: set_pipeline and the slots

\* this step is a set_pipeline that installs another pipeline layout
LayoutSwitch ==
    /\ nops' = nops + 1
    /\ last'.op = "set_pipeline"
    /\ binder'.pipeline_layout_id # binder.pipeline_layout_id

\* the layouts the pipeline layout of the binder expects, by slot
ExpectedIds(b) == pipeline_layout_guard[b.pipeline_layout_id]

\* the group the slot holds has the layout the new pipeline layout expects
Survives(i) ==
    /\ i < Len(ExpectedIds(binder'))
    /\ binder.entries[i].provided # NoPair
    /\ binder.entries[i].provided.layout_id = ExpectedIds(binder')[i + 1]

\* C31: when set_pipeline installs another pipeline layout whose expected
\* layout at slot i is the layout of the group the slot holds, and no lower
\* slot mismatches, slot i is valid after the call and the backend holds that
\* group at set i, without the group being provided again.
C31_MatchingGroupsSurvive ==
    [][LayoutSwitch =>
          \A i \in Slots :
              (/\ Survives(i)
               /\ \A j \in 0 .. (i - 1) : ~SlotInvalid(binder', j)) =>
                  /\ SlotBound(binder', i)
                  /\ Bit(invalid_mask(binder'), i) = 0
                  /\ binder'.entries[i].provided = binder.entries[i].provided
                  /\ descriptor_sets'[i] = binder.entries[i].provided.group_id]_vars

\* the new pipeline layout expects at slot i another layout than the slot
\* expected, and the slot holds no group of that layout
YieldsMismatch(i) ==
    /\ i < Len(ExpectedIds(binder'))
    /\ binder.entries[i].expected_layout_id # ExpectedIds(binder')[i + 1]
    /\ ~Survives(i)

\* the commands of the step that bind a descriptor set at a slot above i
BindsAbove(cmds, i) ==
    { k \in 1 .. Len(cmds) : cmds[k].sets # << >> /\ cmds[k].first > i }

\* C32: within one set_pipeline call, once slot i yields Mismatch no
\* descriptor set of a slot j > i is bound to the backend by that call, even
\* if the group of slot j has the layout the slot now expects.
C32_MismatchTaintsHigherSlots ==
    [][LayoutSwitch =>
          \A i \in Slots :
              YieldsMismatch(i) => BindsAbove(recorded', i) = {}]_vars

\* the first set_pipeline of the pass found a group of another layout in slot
\* 0 and a group of the expected layout in slot 1, and bound no set
C32_Witness ==
    /\ last.op = "set_pipeline" /\ last.group = "p2" /\ nops = 3
    /\ SlotInvalid(binder, 0) /\ binder.entries[0].provided # NoPair
    /\ SlotBound(binder, 1)
    /\ Len(recorded) = 1

\* the stored offsets of the slots from + 1 .. from + n, in slot order
RECURSIVE StoredOffsets(_, _, _)
StoredOffsets(b, from, n) ==
    IF n = 0 THEN << >>
    ELSE b.entries[from + 1].dynamic_offsets \o StoredOffsets(b, from + 1, n - 1)

\* C33: whenever set_bind_group binds (provide_entry returns Some), the
\* follow-up offsets are the stored offsets, in slot order, of the slots
\* whose groups are the follow-up groups; the offsets of a slot whose group
\* is not among them are not included.
C33_FollowUpOffsetsOfFollowUps ==
    [][\A index \in Slots :
          (SetBindGroupStep(index) /\ recorded' # << >>) =>
              recorded'[1].offsets =
                  last'.offsets
                  \o StoredOffsets(binder', index,
                                   Len(FollowUps(recorded')))]_vars


\* ------------------------------------------ lifecycle: triage properties

\* the holders of a clone of the resource's ref_count: the store, the device
\* tracker, `referenced`, `mapped`, the trackers of the command buffers, and a
\* buffer_map_async call between its two blocks
CloneHolders(r) ==
    { << "store", x >> : x \in { y \in {r} : y \in registered } }
    \cup { << "tracker", x >> : x \in { y \in {r} : trackers[y] # "absent" } }
    \cup { << "referenced", i >> : i \in { j \in 1 .. Len(referenced) : referenced[j] = r } }
    \cup { << "mapped", i >> : i \in { j \in 1 .. Len(mapped) : mapped[j] = r } }
    \cup { << "cmb", c >> : c \in { d \in Cmbs : r \in cmb[d].used } }
    \cup { << "call", t >> : t \in { u \in Threads : pc[u] = "map_tracker" /\ targ[u].buf = r } }

StrongCount(r) == Cardinality(CloneHolders(r))

\* the step removes the resource from the store
TornDown(r) == r \in registered /\ r \notin registered'

\* C34: a destroyed resource whose strong count is 4 or more stays registered,
\* stays in the device tracker and stays in `referenced` in every step; a
\* step that removes a resource from the store finds its count at exactly 3.
C34_TeardownOnlyAtThree ==
    [][\A r \in Res :
          /\ (r \in Range(referenced) /\ StrongCount(r) >= 4) =>
                /\ r \in registered'
                /\ trackers'[r] # "absent"
                /\ r \in Range(referenced')
          /\ TornDown(r) => StrongCount(r) = 3]_vars

\* a destroyed resource, still used by a command buffer, has been through a
\* maintain (a submission was issued and retired) and is still registered
C34_Witness ==
    \E r \in Range(referenced) :
        /\ StrongCount(r) >= 4
        /\ r \in registered
        /\ \E c \in Cmbs : r \in cmb[c].used
        /\ retired # {}

\* the step takes the resource out of `referenced` without a panic
LeavesReferenced(r) ==
    r \in Range(referenced) /\ r \notin Range(referenced') /\ panic' = "none"

\* the places that hold the native resource of r in a pending state: the
\* resource list of the active submission with r's last submission index,
\* any other active submission, and `free`
PlacedInActive(act, r, idx) ==
    { i \in 1 .. Len(act) : act[i].index = idx /\ r \in Range(act[i].resources) }

PlacedElsewhere(act, r, idx) ==
    { i \in 1 .. Len(act) : act[i].index # idx /\ r \in Range(act[i].resources) }

\* C35: every entry a step removes from `referenced` is, after the step, a
\* native resource in exactly one place: the resource list of the active
\* submission whose index is the resource's last submission index, or `free`
\* (or it has been handed to the backend destructor by the same maintain); a
\* buffer with a pending map operation is kept in `referenced` or routed so.
C35_RemovedIsRouted ==
    [][\A r \in Res :
          LeavesReferenced(r) =>
              /\ PlacedElsewhere(active', r, submission_index[r]) = {}
              /\   Cardinality(PlacedInActive(active', r, submission_index[r]))
                 + Count(free', r)
                 + (IF r \in nativeDestroyed' \ nativeDestroyed THEN 1 ELSE 0)
                 = 1]_vars

\* ------------------------------------------------ lifecycle: device_destroy

\* the device has been unregistered by some thread's device_destroy
DeviceGone == \E t \in Threads : pc[t] = "device_gone"

\* device_destroy: hub.devices.unregister under devices.write, then
\* device.maintain(true) and com_allocator.destroy. The list of callbacks that
\* maintain returns is a temporary of the statement: callbacks[t] records it,
\* and the thread, at "device_gone", never fires it.
device_destroy(t) ==
    /\ Live
    /\ ~DeviceGone
    /\ UNCHANGED << passVars, frameVars, lockVars, unitVars, vertVars, compVars >>
    /\ pc[t] = "idle"
    /\ DevReaders = {}
    /\ \E okSet \in SUBSET Buffers : maintain(t, TRUE, okSet)
    /\ pc' = [pc EXCEPT ![t] = "device_gone"]
    /\ UNCHANGED << submission_index, device_index, cmb, targ, gpuDone,
                    subUsed, cbLog, nextOp >>

\* the calls on a device up to its destruction; a thread that holds a list of
\* callbacks at that moment still fires it
NextDestroy ==
    \/ ~DeviceGone /\ NextLife
    \/ DeviceGone /\ \E t \in Threads : FireMapCallbacks(t)
    \/ \E t \in Threads : device_destroy(t)

SpecDestroy == InitLife /\ [][NextDestroy]_vars

\* the map operations buffer_map_async has accepted so far: every operation
\* id handed out, less the ones rejected through call_error
AcceptedOps ==
    { n \in 1 .. (nextOp - 1) : ~\E e \in cbLog : e.op = n /\ e.site = "call_error" }

\* no thread has callbacks left that it is about to fire
NothingToFire == \A t \in Threads : pc[t] \notin {"submit_fire", "poll_fire"}

\* C36: once the device has been destroyed (every submission has completed,
\* device_destroy waits for them) and the lists of callbacks held by other
\* threads have been fired, every accepted map operation has had its callback
\* invoked, and no callback is ever in the log under two results.
C36_AcceptedMapsAnswered ==
    /\ (DeviceGone /\ NothingToFire /\ panic = "none") =>
          \A n \in AcceptedOps : \E e \in cbLog : e.op = n
    /\ \A n \in AcceptedOps : Cardinality({ e \in cbLog : e.op = n }) <= 1

\* ------------------------------------------ lifecycle: the `active` list

\* C37: `active` is ordered by strictly increasing submission index.
C37_ActiveSorted ==
    \A i \in 1 .. Len(active) : \A j \in 1 .. Len(active) :
        i < j => active[i].index < active[j].index

\* ------------------------------------------ locking: the device mutexes

\* thread t takes lock l in this step
Takes(t, l) == \E new \in lk_held'[t] \ lk_held[t] : new[1] = l

Holds(t, l) == \E h \in lk_held[t] : h[1] = l

\* C38 as stated: no thread takes `trackers` while it holds `pending`.
C38_TrackersBeforePending ==
    [][\A t \in Threads : Takes(t, "trackers") => ~Holds(t, "pending")]_vars

\* C38 amended: no thread takes `pending` while it holds `trackers`; a thread
\* that holds both took `pending` first.
C38_PendingBeforeTrackers ==
    [][\A t \in Threads : Takes(t, "pending") => ~Holds(t, "trackers")]_vars

\* a thread holds both device mutexes
C38_Witness ==
    \E t \in Threads : Holds(t, "trackers") /\ Holds(t, "pending")

\* --------------------------- one encoder, a compute pass and a render pass

\* texture views used as attachments, bind groups bound in passes
TrackViews == {"v1", "v2"}
TrackGroups == {"g1", "g2"}

EncLive == enc_panic = "none" /\ enc_nops < MaxEncoderOps

\* TrackerSet::merge_extend
merge_extend(base, head) == base \cup head

\* command_encoder_begin_compute_pass: the last list of the encoder and its
\* tracker set move into the pass, the encoder is left with a new tracker set
command_encoder_begin_compute_pass ==
    /\ EncLive
    /\ UNCHANGED << lifeVars, passVars, frameVars, lockVars, unitVars, vertVars >>
    /\ compute_pass = NoPass
    /\ enc_nops' = enc_nops + 1
    /\ enc_last' = "begin_compute_pass"
    /\ IF enc_raw = << >>
       THEN /\ enc_panic' = "unwrap_none"
            /\ UNCHANGED << enc_trackers, enc_raw, compute_pass, enc_since >>
       ELSE /\ compute_pass' = [raw |-> enc_raw[Len(enc_raw)],
                                trackers |-> enc_trackers]
            /\ enc_raw' = SubSeq(enc_raw, 1, Len(enc_raw) - 1)
            /\ enc_trackers' = {}
            /\ enc_since' = [begin |-> enc_trackers, merged |-> {}]
            /\ UNCHANGED enc_panic
    /\ UNCHANGED render_pass

\* compute_pass_set_bind_group, the tracker part: the bind group and what it
\* uses enter the trackers of the pass
enc_compute_pass_set_bind_group(g) ==
    /\ EncLive
    /\ UNCHANGED << lifeVars, passVars, frameVars, lockVars, unitVars, vertVars >>
    /\ compute_pass # NoPass
    /\ g \notin compute_pass.trackers
    /\ compute_pass' = [compute_pass EXCEPT !.trackers = merge_extend(@, {g})]
    /\ enc_nops' = enc_nops + 1
    /\ enc_last' = "compute_pass_set_bind_group"
    /\ UNCHANGED << enc_trackers, enc_raw, render_pass, enc_since, enc_panic >>

\* cmb.trackers = pass.trackers
end_compute_trackers(base, head) == head

\* compute_pass_end_pass
compute_pass_end_pass ==
    /\ EncLive
    /\ UNCHANGED << lifeVars, passVars, frameVars, lockVars, unitVars, vertVars >>
    /\ compute_pass # NoPass
    /\ enc_trackers' = end_compute_trackers(enc_trackers, compute_pass.trackers)
    /\ enc_raw' = Append(enc_raw, compute_pass.raw)
    /\ compute_pass' = NoPass
    /\ enc_nops' = enc_nops + 1
    /\ enc_last' = "compute_pass_end_pass"
    /\ UNCHANGED << render_pass, enc_since, enc_panic >>

\* command_encoder_begin_render_pass, the tracker part: the attachment view
\* is used in cmb.trackers, the pass gets a list of its own
enc_begin_render_pass(v) ==
    /\ EncLive
    /\ UNCHANGED << lifeVars, passVars, frameVars, lockVars, unitVars, vertVars >>
    /\ render_pass = NoPass
    /\ enc_trackers' = merge_extend(enc_trackers, {v})
    /\ render_pass' = [raw |-> enc_nops + 2, trackers |-> {}]
    /\ enc_since' = IF compute_pass # NoPass
                    THEN [enc_since EXCEPT !.merged = @ \cup {v}]
                    ELSE enc_since
    /\ enc_nops' = enc_nops + 1
    /\ enc_last' = "begin_render_pass"
    /\ UNCHANGED << enc_raw, compute_pass, enc_panic >>

\* render_pass_set_bind_group, the tracker part
enc_render_pass_set_bind_group(g) ==
    /\ EncLive
    /\ UNCHANGED << lifeVars, passVars, frameVars, lockVars, unitVars, vertVars >>
    /\ render_pass # NoPass
    /\ g \notin render_pass.trackers
    /\ render_pass' = [render_pass EXCEPT !.trackers = merge_extend(@, {g})]
    /\ enc_nops' = enc_nops + 1
    /\ enc_last' = "render_pass_set_bind_group"
    /\ UNCHANGED << enc_trackers, enc_raw, compute_pass, enc_since, enc_panic >>

\* render_pass_end_pass, the tracker part: the trackers of the pass are
\* stitched into cmb.trackers (insert_barriers when the encoder has a last
\* list, merge_extend when it has none), and the list of the pass is pushed
enc_render_pass_end_pass ==
    /\ EncLive
    /\ UNCHANGED << lifeVars, passVars, frameVars, lockVars, unitVars, vertVars >>
    /\ render_pass # NoPass
    /\ enc_trackers' = merge_extend(enc_trackers, render_pass.trackers)
    /\ enc_raw' = Append(enc_raw, render_pass.raw)
    /\ enc_since' = IF compute_pass # NoPass
                    THEN [enc_since EXCEPT !.merged = @ \cup render_pass.trackers]
                    ELSE enc_since
    /\ render_pass' = NoPass
    /\ enc_nops' = enc_nops + 1
    /\ enc_last' = "render_pass_end_pass"
    /\ UNCHANGED << compute_pass, enc_panic >>

NextCompute ==
    \/ command_encoder_begin_compute_pass
    \/ \E g \in TrackGroups : enc_compute_pass_set_bind_group(g)
    \/ compute_pass_end_pass
    \/ \E v \in TrackViews : enc_begin_render_pass(v)
    \/ \E g \in TrackGroups : enc_render_pass_set_bind_group(g)
    \/ enc_render_pass_end_pass

InitCompute ==
    LifeStart /\ PassClosed /\ FrameStart /\ LockStart /\ UnitStart /\ CompStart
    /\ VertStart

SpecCompute == InitCompute /\ [][NextCompute]_vars

\* the step is a compute_pass_end_pass
EndsCompute == enc_nops' = enc_nops + 1 /\ enc_last' = "compute_pass_end_pass"

\* C39: after compute_pass_end_pass the tracker set of the command buffer
\* holds every usage it held when the compute pass began, every usage
\* recorded in the pass and every usage merged into the command buffer
\* between begin and end, and the encoder keeps every command list recorded
\* so far, that of the pass included.
C39_EndKeepsTrackedState ==
    [][EndsCompute =>
          /\ enc_since.begin \subseteq enc_trackers'
          /\ compute_pass.trackers \subseteq enc_trackers'
          /\ enc_since.merged \subseteq enc_trackers'
          /\ Range(enc_raw) \cup {compute_pass.raw} \subseteq Range(enc_raw')]_vars

\* ------------------------------------------- lifecycle: the map queues

\* the buffer ids in `mapped`, in the `mapped` lists of the active
\* submissions and in `ready_to_map`, in this order
MapQueue == mapped \o Flatten(active, Len(active), "mapped") \o ready_to_map

\* C40: every buffer id in `mapped`, in the `mapped` list of an active
\* submission or in `ready_to_map` is registered and has a pending map
\* operation, no id occurs twice across these lists, and handle_mapping never
\* finds the operation absent.
C40_QueuedMapsArePending ==
    /\ \A i \in 1 .. Len(MapQueue) :
          /\ MapQueue[i] \in registered
          /\ pending_map_operation[MapQueue[i]] # NoOp
          /\ \A j \in 1 .. Len(MapQueue) : MapQueue[j] = MapQueue[i] => j = i
    /\ panic # "unwrap_none"

\* a buffer the user has destroyed waited, registered, in the `mapped` list of
\* an active submission
C40_Witness ==
    \E i \in 1 .. Len(active) :
        \E b \in Range(active[i].mapped) : b \in Range(referenced)


====
